---- MODULE Spec2Model ----
(***************************************************************************)
(* The MT9V032 image-sensor driver (drivers/media/video/mt9v032.c) as a    *)
(* state machine: the sensor structure with its mirrored register fields,  *)
(* the module parameters, the sensor's register file behind the two-wire   *)
(* bus, the platform clock and power callbacks, and one action per ioctl   *)
(* handler.  Every handler is one atomic step (the driver is called        *)
(* serially); the bus transfers and platform calls it issued are kept in   *)
(* "log", its identity and result in "call".                               *)
(***************************************************************************)
EXTENDS Integers, Sequences, FiniteSets, TLC

VARIABLES
    sensor,       \* struct mt9v032_sensor: detected, version and the mirrors
    auto_exp,     \* module parameter auto_exp
    auto_gain,    \* module parameter auto_gain
    hdr,          \* module parameter hdr
    low_light,    \* module parameter low_light
    hflip,        \* module parameter hflip
    vflip,        \* module parameter vflip
    sensor_type,  \* module parameter sensor_type
    chip,         \* the version the chip on this board reports
    regs,         \* the chip's register file: address -> last value stored
    written,      \* the registers a write has reached so far
    xclk,         \* frequency of the last pdata->set_xclk call
    power,        \* state of the last pdata->set_power call that succeeded
    clientdata,   \* i2c_get_clientdata(client): 1 the sensor, 0 NULL
    ctrls,        \* the controls the caller of this behaviour sets
    nfaults,      \* the calls so far during which the bus was faulty
    call,         \* the last handler call: operation, arguments, return value
    log           \* the bus transfers, clock/power calls and delays of that call

vars == <<sensor, auto_exp, auto_gain, hdr, low_light, hflip, vflip,
          sensor_type, chip, regs, written, xclk, power, clientdata, ctrls,
          nfaults, call, log>>

----------------------------------------------------------------------------
(* Register addresses and configuration bits (mt9v032.h).                  *)

MT9V032_CHIP_VERSION == 0
MT9V032_WINDOW_HEIGHT == 3
MT9V032_HORIZONTAL_BLANKING == 5
MT9V032_VERTICAL_BLANKING == 6
MT9V032_CHIP_CONTROL == 7
MT9V032_TOTAL_SHUTTER_WIDTH == 11
MT9V032_RESET == 12
MT9V032_READ_MODE == 13
MT9V032_PIXEL_OPERATION_MODE == 15
MT9V032_ADC_MODE_CONTROL == 28
MT9V032_ANALOG_GAIN == 53
MT9V032_MAXIMUM_ANALOG_GAIN == 54
MT9V032_AEC_AGC_ENABLE == 175
MT9V032_MAX_SHUTTER_WIDTH == 189

MT9V032_AUTO_EXPOSURE == 1
MT9V032_AUTO_GAIN == 2
MT9V032_LINEAR_ADC == 2
MT9V032_COMPANDING_ADC == 3
MT9V032_SNAPSHOT_MODE == 16
MT9V032_COLOR_SENSOR == 4
MT9V032_HIGH_DYNAMIC_RANGE == 64
MT9V032_VERTICAL_FLIP == 16
MT9V032_HORIZONTAL_FLIP == 32

(* The frame the sensor delivers (mt9v032.h).                              *)
MT9V032_MAX_WIDTH == 752
MT9V032_MAX_HEIGHT == 480

(* Error numbers returned by the handlers, and the error a failed bus      *)
(* transfer or platform call returns.                                      *)
EINVAL == 22
ENODEV == 19
EIO == 5
EBUSY == 16

(* enum v4l2_field, enum v4l2_colorspace and enum v4l2_buf_type values the  *)
(* format handlers use.                                                    *)
V4L2_FIELD_NONE == 1
V4L2_COLORSPACE_SRGB == 8
V4L2_BUF_TYPE_VIDEO_CAPTURE == 1

(* The two chip versions mt9v032_detect accepts, and the clock rate        *)
(* ioctl_s_power requests.                                                 *)
VERSION_1311 == 4881
VERSION_1313 == 4883
XCLK_HZ == 27000000

(* enum v4l2_power, the argument of ioctl_s_power.                         *)
V4L2_POWER_OFF == 0
V4L2_POWER_ON == 1
V4L2_POWER_STANDBY == 2

----------------------------------------------------------------------------
(* C integer arithmetic.  Bits of a two's-complement int are read with     *)
(* floor division, so the operators below are exact on negative values     *)
(* (an error code returned by reg_read) as well.                           *)

U16(x) == x % 65536

TestBit(x, m) == (x \div m) % 2 = 1

\* x | m for a one-bit mask m
OrBit(x, m) == IF TestBit(x, m) THEN x ELSE x + m

\* x & ~m for a one-bit mask m
ClearBit(x, m) == IF TestBit(x, m) THEN x - m ELSE x

\* !!(x & m)
BoolOf(x, m) == IF TestBit(x, m) THEN 1 ELSE 0

----------------------------------------------------------------------------
(* reg_default: the (address, value) pairs in table order.                 *)

reg_default ==
    << <<1, 1>>,        \* Column Start            0x0001
       <<2, 4>>,        \* Row Start               0x0004
       <<3, 480>>,      \* Window Height           0x01e0
       <<4, 752>>,      \* Window Width            0x02f0
       <<5, 94>>,       \* Horizontal Blanking     0x005e
       <<6, 45>>,       \* Vertical Blanking       0x002d
       <<7, 904>>,      \* Chip Control            0x0388
       <<8, 443>>,      \* Shutter Width 1         0x01bb
       <<9, 473>>,      \* Shutter Width 2         0x01d9
       <<10, 356>>,     \* Shutter Width Ctrl      0x0164
       <<11, 480>>,     \* Total Shutter Width     0x01e0
       <<12, 0>>,       \* Reset                   0x0000
       <<13, 768>>,     \* Read Mode               0x0300
       <<14, 0>>,       \* Monitor Mode            0x0000
       <<15, 17>>,      \* Pixel Operation Mode    0x0011
       <<27, 0>>,       \* LED_OUT Ctrl            0x0000
       <<28, 2>>,       \* ADC Mode Control        0x0002
       <<44, 4>>,       \* VREF_ADC Control        0x0004
       <<49, 29>>,      \* V1                      0x001d
       <<50, 24>>,      \* V2                      0x0018
       <<51, 21>>,      \* V3                      0x0015
       <<52, 4>>,       \* V4                      0x0004
       <<53, 16>>,      \* Analog Gain (16-64)     0x0010
       <<54, 64>>,      \* Max Analog Gain         0x0040
       <<70, 8989>>,    \* Dark Avg Thresholds     0x231d
       <<71, 32896>>,   \* Black Level Calib Ctrl  0x8080
       <<76, 2>>,       \* BL Calib Step Size      0x0002
       <<112, 52>>,     \* Row Noise Corr Ctrl 1   0x0034
       <<114, 42>>,     \* Row Noise Constant      0x002a
       <<115, 759>>,    \* Row Noise Corr Ctrl 2   0x02f7
       <<116, 0>>,      \* Pixclk, FV, LV          0x0000
       <<127, 0>>,      \* Digital Test Pattern    0x0000
       <<165, 58>>,     \* AEC/AGC Desired Bin     0x003a
       <<166, 2>>,      \* AEC Update Frequency    0x0002
       <<168, 0>>,      \* AEC LPF                 0x0000
       <<169, 2>>,      \* AGC Update Frequency    0x0002
       <<171, 2>>,      \* AGC LPF                 0x0002
       <<175, 3>>,      \* AEC/AGC Enable          0x0003
       <<176, 44000>>,  \* AEC/AGC Pix Count       0xabe0
       <<189, 480>>,    \* Maximum Shutter Width   0x01e0
       <<190, 20>> >>   \* AGC/AEC Bin Diff Thresh 0x0014

\* Every address the driver transfers: the table's and the chip version.
RegAddrs == {reg_default[i][1] : i \in 1..Len(reg_default)} \cup {MT9V032_CHIP_VERSION}

(* mt9v032_controls: the descriptors ioctl_queryctrl reports.              *)
mt9v032_controls ==
    << [id |-> "VFLIP",         type |-> "BOOLEAN", minimum |-> 0,  maximum |-> 1,   step |-> 1, default_value |-> 0],
       [id |-> "HFLIP",         type |-> "BOOLEAN", minimum |-> 0,  maximum |-> 1,   step |-> 1, default_value |-> 0],
       [id |-> "EXPOSURE",      type |-> "INTEGER", minimum |-> 2,  maximum |-> 480, step |-> 1, default_value |-> 480],
       [id |-> "GAIN",          type |-> "INTEGER", minimum |-> 16, maximum |-> 64,  step |-> 1, default_value |-> 16],
       [id |-> "EXPOSURE_AUTO", type |-> "BOOLEAN", minimum |-> 0,  maximum |-> 1,   step |-> 1, default_value |-> 1],
       [id |-> "AUTOGAIN",      type |-> "BOOLEAN", minimum |-> 0,  maximum |-> 1,   step |-> 1, default_value |-> 1] >>

----------------------------------------------------------------------------
(* The bus.  A handler threads a bus value b = [regs, log] through its     *)
(* transfers.  The environment of one call is a plan p: the addresses      *)
(* whose writes fail (wfail), whose reads fail (rfail), and the reads that *)
(* return something else than the value last stored (rval: the chip        *)
(* version, a register the chip adjusted by itself).                       *)

Event(ev, reg, val, ok) == [ev |-> ev, reg |-> reg, val |-> val, ok |-> ok]

Bus(r) == [regs |-> r, log |-> <<>>]

\* i2c_smbus_write_word_data's result
reg_write_ret(p, reg) == IF reg \in p.wfail THEN -EIO ELSE 0

\* reg_write: the value is passed as u16; a transfer that succeeds stores it
reg_write(b, p, reg, value) ==
    [regs |-> IF reg_write_ret(p, reg) = 0
              THEN [b.regs EXCEPT ![reg] = U16(value)]
              ELSE b.regs,
     log  |-> Append(b.log, Event("write", reg, U16(value), reg_write_ret(p, reg) = 0))]

\* reg_read's result: a negative error, or the 16-bit register value
reg_read(b, p, reg) ==
    IF reg \in p.rfail THEN -EIO
    ELSE IF reg \in DOMAIN p.rval THEN p.rval[reg]
    ELSE b.regs[reg]

\* the bus after a reg_read
reg_read_bus(b, p, reg) ==
    [b EXCEPT !.log = Append(b.log, Event("read", reg, reg_read(b, p, reg), reg \notin p.rfail))]

\* mdelay / msleep
Delay(b, ms) == [b EXCEPT !.log = Append(b.log, Event("delay", 0, ms, TRUE))]

\* pdata->set_xclk
SetXclk(b, hz) == [b EXCEPT !.log = Append(b.log, Event("xclk", 0, hz, TRUE))]

\* pdata->set_power, returning rval
SetPower(b, target, rval) ==
    [b EXCEPT !.log = Append(b.log, Event("power", 0, target, rval >= 0))]

----------------------------------------------------------------------------
(* mt9v032_configure                                                       *)

horizontal_blanking == 43
vertical_blanking == 88

\* the index of the last table entry for a register, 0 if it has none
LastEntry ==
    [r \in RegAddrs |->
        LET S == {i \in 1..Len(reg_default) : reg_default[i][1] = r}
        IN IF S = {} THEN 0 ELSE CHOOSE i \in S : \A j \in S : j <= i]

\* for (i = 0; i < ARRAY_SIZE(reg_default); i++) reg_write(...): the bus
\* after the loop.  Entry i is logged at position i; a register whose
\* writes succeed ends with the value of its last entry.
WriteDefaults(b, p) ==
    [regs |-> [r \in RegAddrs |->
                 IF LastEntry[r] = 0 \/ reg_write_ret(p, r) # 0 THEN b.regs[r]
                 ELSE U16(reg_default[LastEntry[r]][2])],
     log  |-> b.log \o [i \in 1..Len(reg_default) |->
                 Event("write", reg_default[i][1], U16(reg_default[i][2]),
                       reg_write_ret(p, reg_default[i][1]) = 0)]]

\* a verification that resets the chip again when a read does not return
\* the table's value
VerifyDefaults_ResetOnMismatch(b, p) ==
    IF \E i \in 1..Len(reg_default) :
          reg_read(b, p, reg_default[i][1]) # reg_default[i][2]
    THEN reg_write([b EXCEPT !.log = b.log \o [i \in 1..Len(reg_default) |->
                       Event("read", reg_default[i][1], reg_read(b, p, reg_default[i][1]),
                             reg_default[i][1] \notin p.rfail)]],
                   p, MT9V032_RESET, 3)
    ELSE [b EXCEPT !.log = b.log \o [i \in 1..Len(reg_default) |->
             Event("read", reg_default[i][1], reg_read(b, p, reg_default[i][1]),
                   reg_default[i][1] \notin p.rfail)]]

\* the verification pass: one read per entry in table order; a mismatch is
\* reported with dev_info and changes nothing
VerifyDefaults(b, p) ==
    [b EXCEPT !.log = b.log \o [i \in 1..Len(reg_default) |->
        Event("read", reg_default[i][1], reg_read(b, p, reg_default[i][1]),
              reg_default[i][1] \notin p.rfail)]]

\* if (flag) x |= m; else x &= ~m;
MergeBit(x, flag, m) == IF flag # 0 THEN OrBit(x, m) ELSE ClearBit(x, m)

\* The steps of mt9v032_configure.  Each takes st = [sensor, bus], the sensor
\* structure and the bus before the step, and gives them after it.

\* a handler's result: the sensor, the bus and the return value
WithRet(st, ret) == [sensor |-> st.sensor, bus |-> st.bus, ret |-> ret]

\* sensor->field = value; reg_write(sensor, reg, sensor->field);
Store(st, p, field, reg, value) ==
    [sensor |-> [st.sensor EXCEPT ![field] = value],
     bus    |-> reg_write(st.bus, p, reg, value)]

\* the transfer of a reg_read
Read(st, p, reg) == [st EXCEPT !.bus = reg_read_bus(st.bus, p, reg)]

\* a configuration that verifies the table before the reset that latches it
ConfigureDefaults_VerifyFirst(st, p) ==
    [st EXCEPT !.bus =
        Delay(reg_write(
                  VerifyDefaults(
                      WriteDefaults(Delay(reg_write(st.bus, p, MT9V032_RESET, 3), 1), p), p),
                  p, MT9V032_RESET, 1), 1)]

\* "Soft reset", "Initialize register values", "Update shadowed registers",
\* "Verify"
ConfigureDefaults(st, p) ==
    [st EXCEPT !.bus =
        VerifyDefaults(
            Delay(reg_write(WriteDefaults(Delay(reg_write(st.bus, p, MT9V032_RESET, 3), 1), p),
                            p, MT9V032_RESET, 1), 1),
            p)]

\* "Set horizontal and vertical blanking"
ConfigureBlanking(st, p) ==
    [st EXCEPT !.bus =
        reg_write(reg_write(st.bus, p, MT9V032_HORIZONTAL_BLANKING, horizontal_blanking),
                  p, MT9V032_VERTICAL_BLANKING, vertical_blanking)]

\* "Set snapshot mode on startup": chip_control is a u16
ConfigureChipControl(st, p) ==
    Store(Read(st, p, MT9V032_CHIP_CONTROL), p, "chip_control", MT9V032_CHIP_CONTROL,
          U16(OrBit(reg_read(st.bus, p, MT9V032_CHIP_CONTROL), MT9V032_SNAPSHOT_MODE)))

\* "Find the max shutter width": shutter is an int
ConfigureShutter(st, p) ==
    Store(Read(st, p, MT9V032_WINDOW_HEIGHT), p, "shutter", MT9V032_TOTAL_SHUTTER_WIDTH,
          reg_read(st.bus, p, MT9V032_WINDOW_HEIGHT) + vertical_blanking - 2)

\* "Set sensor operation mode": pixel_mode is an int
ConfigurePixelMode(st, t, p) ==
    Store(Read(st, p, MT9V032_PIXEL_OPERATION_MODE), p,
          "pixel_mode", MT9V032_PIXEL_OPERATION_MODE,
          MergeBit(reg_read(st.bus, p, MT9V032_PIXEL_OPERATION_MODE), t.hdr,
                   MT9V032_HIGH_DYNAMIC_RANGE))

\* "Set read mode": read_mode is a u16
ConfigureReadMode(st, t, p) ==
    Store(Read(st, p, MT9V032_READ_MODE), p, "read_mode", MT9V032_READ_MODE,
          MergeBit(MergeBit(U16(reg_read(st.bus, p, MT9V032_READ_MODE)),
                            t.vflip, MT9V032_VERTICAL_FLIP),
                   t.hflip, MT9V032_HORIZONTAL_FLIP))

\* "Enable AEC and AGC and set their values": aec_agc_enable is a u16
ConfigureAecAgc(st, t, p) ==
    Store(Read(st, p, MT9V032_AEC_AGC_ENABLE), p, "aec_agc_enable", MT9V032_AEC_AGC_ENABLE,
          MergeBit(MergeBit(U16(reg_read(st.bus, p, MT9V032_AEC_AGC_ENABLE)),
                            t.auto_exp, MT9V032_AUTO_EXPOSURE),
                   t.auto_gain, MT9V032_AUTO_GAIN))

\* "Enable companding"
ConfigureAdcMode(st, t, p) ==
    Store(st, p, "adc_mode", MT9V032_ADC_MODE_CONTROL,
          IF t.low_light # 0 THEN MT9V032_COMPANDING_ADC ELSE MT9V032_LINEAR_ADC)

\* "Set manual analog gain to its maximum": gain is a local of the function,
\* sensor->gain is not assigned
ConfigureGain(st, p) ==
    [st EXCEPT !.bus =
        reg_write(reg_read_bus(st.bus, p, MT9V032_MAXIMUM_ANALOG_GAIN), p,
                  MT9V032_ANALOG_GAIN, reg_read(st.bus, p, MT9V032_MAXIMUM_ANALOG_GAIN))]

\* "Increase the maximum total shutter width"
ConfigureMaxShutter(st, p) ==
    [st EXCEPT !.bus = reg_write(st.bus, p, MT9V032_MAX_SHUTTER_WIDTH, 4 * st.sensor.shutter)]

\* mt9v032_configure: the sensor structure and the bus after the call, for
\* the module parameters t.  It returns 0 on every path.
mt9v032_configure(s, t, b0, p) ==
    WithRet(
        ConfigureMaxShutter(
        ConfigureGain(
        ConfigureAdcMode(
        ConfigureAecAgc(
        ConfigureReadMode(
        ConfigurePixelMode(
        ConfigureShutter(
        ConfigureChipControl(
        ConfigureBlanking(
        ConfigureDefaults([sensor |-> s, bus |-> b0], p),
        p), p), p), t, p), t, p), t, p), t, p), p), p),
        0)

\* mt9v032_stop_capture: set snapshot mode
mt9v032_stop_capture(s, b, p) ==
    LET chip_control == OrBit(s.chip_control, MT9V032_SNAPSHOT_MODE)
    IN [sensor |-> [s EXCEPT !.chip_control = chip_control],
        bus |-> reg_write(b, p, MT9V032_CHIP_CONTROL, chip_control),
        ret |-> reg_write_ret(p, MT9V032_CHIP_CONTROL)]

\* mt9v032_start_capture: set stream mode
mt9v032_start_capture(s, b, p) ==
    LET chip_control == ClearBit(s.chip_control, MT9V032_SNAPSHOT_MODE)
    IN [sensor |-> [s EXCEPT !.chip_control = chip_control],
        bus |-> reg_write(b, p, MT9V032_CHIP_CONTROL, chip_control),
        ret |-> reg_write_ret(p, MT9V032_CHIP_CONTROL)]

\* a detection that takes any version the read returns
mt9v032_detect_AnyVersion(b, p) ==
    LET version == reg_read(b, p, MT9V032_CHIP_VERSION)
    IN IF version < 0 THEN -ENODEV ELSE version

\* mt9v032_detect: the version read, or -ENODEV
mt9v032_detect(b, p) ==
    LET version == reg_read(b, p, MT9V032_CHIP_VERSION)
    IN IF version < 0 THEN -ENODEV
       ELSE IF version # VERSION_1311 /\ version # VERSION_1313 THEN -ENODEV
       ELSE version

----------------------------------------------------------------------------
(* The control handlers.                                                   *)

CtrlIndex(id) == CHOOSE i \in 1..Len(mt9v032_controls) : mt9v032_controls[i].id = id

KnownIds == {mt9v032_controls[i].id : i \in 1..Len(mt9v032_controls)}

\* ioctl_queryctrl: the descriptor, or -EINVAL
ioctl_queryctrl(id) ==
    IF id \in KnownIds
    THEN [ret |-> 0, vc |-> mt9v032_controls[CtrlIndex(id)]]
    ELSE [ret |-> -EINVAL, vc |-> [id |-> id, flags |-> "DISABLED"]]

\* a get that answers 0 for a control it does not know
ioctl_g_ctrl_UnknownIsZero(s, id) ==
    CASE id = "VFLIP"         -> [ret |-> 0, value |-> BoolOf(s.read_mode, 16)]
      [] id = "HFLIP"         -> [ret |-> 0, value |-> BoolOf(s.read_mode, 32)]
      [] id = "EXPOSURE"      -> [ret |-> 0, value |-> s.shutter]
      [] id = "GAIN"          -> [ret |-> 0, value |-> s.gain]
      [] id = "EXPOSURE_AUTO" -> [ret |-> 0, value |-> BoolOf(s.aec_agc_enable, 1)]
      [] id = "AUTOGAIN"      -> [ret |-> 0, value |-> BoolOf(s.aec_agc_enable, 2)]
      [] OTHER                -> [ret |-> 0, value |-> 0]

\* a get that reports the descriptor's default for the integer controls
ioctl_g_ctrl_DescriptorDefault(s, id) ==
    CASE id = "VFLIP"         -> [ret |-> 0, value |-> BoolOf(s.read_mode, 16)]
      [] id = "HFLIP"         -> [ret |-> 0, value |-> BoolOf(s.read_mode, 32)]
      [] id = "EXPOSURE"      -> [ret |-> 0, value |-> mt9v032_controls[3].default_value]
      [] id = "GAIN"          -> [ret |-> 0, value |-> mt9v032_controls[4].default_value]
      [] id = "EXPOSURE_AUTO" -> [ret |-> 0, value |-> BoolOf(s.aec_agc_enable, 1)]
      [] id = "AUTOGAIN"      -> [ret |-> 0, value |-> BoolOf(s.aec_agc_enable, 2)]
      [] OTHER                -> [ret |-> -EINVAL, value |-> 0]

\* ioctl_g_ctrl: the value decoded from the mirrors, or -EINVAL
ioctl_g_ctrl(s, id) ==
    CASE id = "VFLIP"         -> [ret |-> 0, value |-> BoolOf(s.read_mode, 16)]
      [] id = "HFLIP"         -> [ret |-> 0, value |-> BoolOf(s.read_mode, 32)]
      [] id = "EXPOSURE"      -> [ret |-> 0, value |-> s.shutter]
      [] id = "GAIN"          -> [ret |-> 0, value |-> s.gain]
      [] id = "EXPOSURE_AUTO" -> [ret |-> 0, value |-> BoolOf(s.aec_agc_enable, 1)]
      [] id = "AUTOGAIN"      -> [ret |-> 0, value |-> BoolOf(s.aec_agc_enable, 2)]
      [] OTHER                -> [ret |-> -EINVAL, value |-> 0]

\* a range check that forgets the upper bound
OutOfRange_MinimumOnly(lvc, value) == value < lvc.minimum

\* vc->value < lvc->minimum || vc->value > lvc->maximum
OutOfRange(lvc, value) == value < lvc.minimum \/ value > lvc.maximum

\* a gain that is stored as passed
GainCode_AsPassed(value) == value

\* if (sensor->gain >= 32) sensor->gain &= ~1;
GainCode(value) == IF value >= 32 THEN ClearBit(value, 1) ELSE value

\* the result of a handler that fails before it touches anything
Rejected(s, t, b, err) == [sensor |-> s, tun |-> t, bus |-> b, ret |-> err]

\* a flip that reaches the mirror and the register, not the module parameter
SetFlip_MirrorOnly(s, t, b, p, value, mask, param) ==
    LET read_mode == MergeBit(s.read_mode, value, mask)
    IN [sensor |-> [s EXCEPT !.read_mode = read_mode],
        tun |-> t,
        bus |-> reg_write(b, p, MT9V032_READ_MODE, read_mode),
        ret |-> 0]

\* a flip that takes the lowest bit of the value for its truth
SetFlip_LowBit(s, t, b, p, value, mask, param) ==
    LET read_mode == MergeBit(s.read_mode, value % 2, mask)
    IN [sensor |-> [s EXCEPT !.read_mode = read_mode],
        tun |-> [t EXCEPT ![param] = value],
        bus |-> reg_write(b, p, MT9V032_READ_MODE, read_mode),
        ret |-> 0]

\* the VFLIP and HFLIP cases: clear the bit, set it if the value is nonzero
SetFlip(s, t, b, p, value, mask, param) ==
    LET read_mode == MergeBit(s.read_mode, value, mask)
    IN [sensor |-> [s EXCEPT !.read_mode = read_mode],
        tun |-> [t EXCEPT ![param] = value],
        bus |-> reg_write(b, p, MT9V032_READ_MODE, read_mode),
        ret |-> 0]

\* an automatic-mode set that assigns the enable word instead of merging
\* its bit into it
SetAuto_AssignWord(s, t, b, p, value, mask, param) ==
    LET aec_agc_enable == IF value # 0 THEN mask ELSE 0
    IN [sensor |-> [s EXCEPT !.aec_agc_enable = aec_agc_enable],
        tun |-> [t EXCEPT ![param] = value],
        bus |-> reg_write(b, p, MT9V032_AEC_AGC_ENABLE, aec_agc_enable),
        ret |-> 0]

\* the EXPOSURE_AUTO and AUTOGAIN cases
SetAuto(s, t, b, p, value, mask, param) ==
    LET aec_agc_enable == MergeBit(s.aec_agc_enable, value, mask)
    IN [sensor |-> [s EXCEPT !.aec_agc_enable = aec_agc_enable],
        tun |-> [t EXCEPT ![param] = value],
        bus |-> reg_write(b, p, MT9V032_AEC_AGC_ENABLE, aec_agc_enable),
        ret |-> 0]

\* turning the automatic mode off in the module parameter only
TurnOffAuto_ParamOnly(s, t, b, p, mask, param) ==
    IF t[param] # 0
    THEN [sensor |-> s,
          tun |-> [t EXCEPT ![param] = 0],
          bus |-> reg_write(b, p, MT9V032_AEC_AGC_ENABLE, s.aec_agc_enable)]
    ELSE [sensor |-> s, tun |-> t, bus |-> b]

\* turning the automatic mode off when the mirror, not the module parameter,
\* has it on
TurnOffAuto_MirrorTested(s, t, b, p, mask, param) ==
    IF TestBit(s.aec_agc_enable, mask)
    THEN LET aec_agc_enable == ClearBit(s.aec_agc_enable, mask)
         IN [sensor |-> [s EXCEPT !.aec_agc_enable = aec_agc_enable],
             tun |-> [t EXCEPT ![param] = 0],
             bus |-> reg_write(b, p, MT9V032_AEC_AGC_ENABLE, aec_agc_enable)]
    ELSE [sensor |-> s, tun |-> t, bus |-> b]

\* "Turn off AEC/AGC": if (param) { param = 0; aec_agc_enable &= ~mask; write }
TurnOffAuto(s, t, b, p, mask, param) ==
    IF t[param] # 0
    THEN LET aec_agc_enable == ClearBit(s.aec_agc_enable, mask)
         IN [sensor |-> [s EXCEPT !.aec_agc_enable = aec_agc_enable],
             tun |-> [t EXCEPT ![param] = 0],
             bus |-> reg_write(b, p, MT9V032_AEC_AGC_ENABLE, aec_agc_enable)]
    ELSE [sensor |-> s, tun |-> t, bus |-> b]

\* an exposure set that rejects the maximum itself
SetExposure_BelowMaximum(s, t, b, p, value) ==
    IF OutOfRange(mt9v032_controls[3], value) \/ value = mt9v032_controls[3].maximum
    THEN Rejected(s, t, b, -EINVAL)
    ELSE LET a == TurnOffAuto(s, t, b, p, MT9V032_AUTO_EXPOSURE, "auto_exp")
         IN [sensor |-> [a.sensor EXCEPT !.shutter = value],
             tun |-> a.tun,
             bus |-> reg_write(a.bus, p, MT9V032_TOTAL_SHUTTER_WIDTH, value),
             ret |-> 0]

\* the EXPOSURE case
SetExposure(s, t, b, p, value) ==
    IF OutOfRange(mt9v032_controls[3], value) THEN Rejected(s, t, b, -EINVAL)
    ELSE LET a == TurnOffAuto(s, t, b, p, MT9V032_AUTO_EXPOSURE, "auto_exp")
         IN [sensor |-> [a.sensor EXCEPT !.shutter = value],
             tun |-> a.tun,
             bus |-> reg_write(a.bus, p, MT9V032_TOTAL_SHUTTER_WIDTH, value),
             ret |-> 0]

\* the GAIN case
SetGain(s, t, b, p, value) ==
    IF OutOfRange(mt9v032_controls[4], value) THEN Rejected(s, t, b, -EINVAL)
    ELSE LET a == TurnOffAuto(s, t, b, p, MT9V032_AUTO_GAIN, "auto_gain")
         IN [sensor |-> [a.sensor EXCEPT !.gain = GainCode(value)],
             tun |-> a.tun,
             bus |-> reg_write(a.bus, p, MT9V032_ANALOG_GAIN, GainCode(value)),
             ret |-> 0]

\* ioctl_s_ctrl: the sensor, the module parameters and the bus after the
\* call, and its return value
ioctl_s_ctrl(s, t, b, p, id, value) ==
    CASE id = "VFLIP"         -> SetFlip(s, t, b, p, value, 16, "vflip")
      [] id = "HFLIP"         -> SetFlip(s, t, b, p, value, 32, "hflip")
      [] id = "EXPOSURE"      -> SetExposure(s, t, b, p, value)
      [] id = "GAIN"          -> SetGain(s, t, b, p, value)
      [] id = "EXPOSURE_AUTO" -> SetAuto(s, t, b, p, value, 1, "auto_exp")
      [] id = "AUTOGAIN"      -> SetAuto(s, t, b, p, value, 2, "auto_gain")
      [] OTHER                -> Rejected(s, t, b, -EINVAL)

----------------------------------------------------------------------------
(* ioctl_s_power                                                           *)

\* "If STANDBY or OFF, stop capture" (only once the chip was detected)
PowerStop(s, b, p, target) ==
    IF target \in {V4L2_POWER_STANDBY, V4L2_POWER_OFF} /\ s.detected = 1
    THEN mt9v032_stop_capture(s, b, p)
    ELSE [sensor |-> s, bus |-> b, ret |-> 0]

\* a clock that is disabled before the wait
PowerClock_ClockFirst(b, target) ==
    IF target = V4L2_POWER_ON THEN SetXclk(b, XCLK_HZ)
    ELSE Delay(SetXclk(b, 0), 50)

\* "If ON enable clock, otherwise disable it" after the 50 ms wait
PowerClock(b, target) ==
    IF target = V4L2_POWER_ON THEN SetXclk(b, XCLK_HZ)
    ELSE SetXclk(Delay(b, 50), 0)

\* a power-on that returns what mt9v032_start_capture returns
StartConfigured_ReturnStart(c, p) == mt9v032_start_capture(c.sensor, c.bus, p)

\* mt9v032_configure(sensor); mt9v032_start_capture(sensor); return 0;
StartConfigured(c, p) == WithRet(mt9v032_start_capture(c.sensor, c.bus, p), 0)

\* a power-on that starts the capture before it configures
ConfigureAndStart_StartFirst(s, t, b, p) ==
    WithRet(mt9v032_configure(mt9v032_start_capture(s, b, p).sensor, t,
                              mt9v032_start_capture(s, b, p).bus, p), 0)

ConfigureAndStart(s, t, b, p) == StartConfigured(mt9v032_configure(s, t, b, p), p)

\* if (!sensor->detected): rval is mt9v032_detect's result, b the bus after it
Detect(s, t, b, p, rval) ==
    IF rval < 0
    THEN [sensor |-> s, bus |-> b, ret |-> rval]
    ELSE ConfigureAndStart([s EXCEPT !.detected = 1, !.version = rval], t, b, p)

\* a power-on that configures the sensor only when it detects it
PowerOn_ConfigureOnce(s, t, b, p) ==
    IF s.detected = 0
    THEN Detect(s, t, reg_read_bus(b, p, MT9V032_CHIP_VERSION), p, mt9v032_detect(b, p))
    ELSE WithRet(mt9v032_start_capture(s, b, p), 0)

\* a power-on that detects the chip every time
PowerOn_DetectAlways(s, t, b, p) ==
    Detect(s, t, reg_read_bus(b, p, MT9V032_CHIP_VERSION), p, mt9v032_detect(b, p))

\* a power-on that refuses a sensor it has detected before
PowerOn_RefuseDetected(s, t, b, p) ==
    IF s.detected = 0
    THEN Detect(s, t, reg_read_bus(b, p, MT9V032_CHIP_VERSION), p, mt9v032_detect(b, p))
    ELSE [sensor |-> s, bus |-> b, ret |-> -EBUSY]

\* "If powered on, detect (only if not detected) and configure"
PowerOn(s, t, b, p) ==
    IF s.detected = 0
    THEN Detect(s, t, reg_read_bus(b, p, MT9V032_CHIP_VERSION), p, mt9v032_detect(b, p))
    ELSE ConfigureAndStart(s, t, b, p)

\* a power call that goes on after set_power failed
ioctl_s_power_IgnoreError(s, t, b, p, target, prval) ==
    LET st == PowerStop(s, b, p, target)
        b1 == SetPower(PowerClock(st.bus, target), target, prval)
    IN IF target = V4L2_POWER_ON
       THEN PowerOn(st.sensor, t, b1, p)
       ELSE [sensor |-> st.sensor, bus |-> b1, ret |-> IF prval < 0 THEN prval ELSE 0]

\* ioctl_s_power for the target state, the platform's set_power returning prval
ioctl_s_power(s, t, b, p, target, prval) ==
    LET st == PowerStop(s, b, p, target)
        b1 == SetPower(PowerClock(st.bus, target), target, prval)
    IN IF prval < 0
       THEN [sensor |-> st.sensor, bus |-> SetXclk(b1, 0), ret |-> prval]
       ELSE IF target = V4L2_POWER_ON
       THEN PowerOn(st.sensor, t, b1, p)
       ELSE [sensor |-> st.sensor, bus |-> b1, ret |-> 0]

----------------------------------------------------------------------------
(* Attach and detach.                                                      *)

\* the image formats of the color and of the mono sensor
mt9v032_color_formats ==
    << [description |-> "Bayer10 (GrR/BGb)", pixelformat |-> "SBGGR10", flags |-> 0] >>

mt9v032_mono_formats ==
    << [description |-> "Bayer10 (GrR/BGb)", pixelformat |-> "SGRBG10", flags |-> 0] >>

\* mt9v032_init: the color list unless sensor_type is "mono"
mt9v032_formats(type) ==
    IF type = "mono" THEN mt9v032_mono_formats ELSE mt9v032_color_formats

mt9v032_num_formats(type) == Len(mt9v032_formats(type))

\* struct v4l2_pix_format of the static sensor structure: all zero
ZeroPix ==
    [width |-> 0, height |-> 0, pixelformat |-> "", field |-> 0,
     bytesperline |-> 0, sizeimage |-> 0, colorspace |-> 0, priv |-> 0]

\* mt9v032_probe on a board with platform data, v4l2_int_device_register
\* returning err: the sensor structure, the client data and the result
mt9v032_probe(s, type, cd, err) ==
    IF cd # 0 THEN [sensor |-> s, clientdata |-> cd, ret |-> -EBUSY]
    ELSE [sensor |-> [s EXCEPT !.pix.width = MT9V032_MAX_WIDTH,
                               !.pix.height = MT9V032_MAX_HEIGHT,
                               !.pix.pixelformat = mt9v032_formats(type)[1].pixelformat],
          clientdata |-> IF err # 0 THEN 0 ELSE 1,
          ret |-> err]

\* mt9v032_remove of a client on its adapter: unregister, clear the client
\* data; the sensor structure is static and keeps every field
mt9v032_remove(s) == [sensor |-> s, clientdata |-> 0, ret |-> 0]

\* ioctl_dev_exit: return 0
ioctl_dev_exit(s) == [sensor |-> s, ret |-> 0]

\* ioctl_dev_init: return 0
ioctl_dev_init(s) == [sensor |-> s, ret |-> 0]

----------------------------------------------------------------------------
(* The format handlers.                                                    *)

\* for (ifmt = 0; ifmt < mt9v032_num_formats; ifmt++) if (... == pixelformat)
\* break;  The entry the loop stops at (counted from 1), one past the list
\* if none matches.
FindFormat(type, pixelformat) ==
    LET found == {i \in 1..mt9v032_num_formats(type) :
                     mt9v032_formats(type)[i].pixelformat = pixelformat}
    IN IF found = {} THEN mt9v032_num_formats(type) + 1
       ELSE CHOOSE i \in found : \A j \in found : i <= j

\* a negotiation that keeps the size the caller asked for
Negotiate_RequestedSize(type, pix) ==
    LET ifmt == IF FindFormat(type, pix.pixelformat) = mt9v032_num_formats(type) + 1
                THEN 1 ELSE FindFormat(type, pix.pixelformat)
    IN [pix EXCEPT !.pixelformat = mt9v032_formats(type)[ifmt].pixelformat,
                   !.field = V4L2_FIELD_NONE,
                   !.bytesperline = pix.width * 2,
                   !.sizeimage = (pix.width * 2) * pix.height,
                   !.priv = 0,
                   !.colorspace = V4L2_COLORSPACE_SRGB]

\* the descriptor ioctl_try_fmt_cap leaves in *pix: the fixed size, the
\* requested encoding or the first of the list, the sizes in bytes (u32
\* products of the fixed size, far below 2^32)
Negotiate(type, pix) ==
    LET ifmt == IF FindFormat(type, pix.pixelformat) = mt9v032_num_formats(type) + 1
                THEN 1 ELSE FindFormat(type, pix.pixelformat)
    IN [pix EXCEPT !.width = MT9V032_MAX_WIDTH,
                   !.height = MT9V032_MAX_HEIGHT,
                   !.pixelformat = mt9v032_formats(type)[ifmt].pixelformat,
                   !.field = V4L2_FIELD_NONE,
                   !.bytesperline = MT9V032_MAX_WIDTH * 2,
                   !.sizeimage = (MT9V032_MAX_WIDTH * 2) * MT9V032_MAX_HEIGHT,
                   !.priv = 0,
                   !.colorspace = V4L2_COLORSPACE_SRGB]

\* ioctl_try_fmt_cap: the descriptor is returned in f and stored in
\* sensor->pix ("sensor->pix = *pix;")
ioctl_try_fmt_cap(s, type, f) ==
    [sensor |-> [s EXCEPT !.pix = Negotiate(type, f)],
     f      |-> Negotiate(type, f),
     ret    |-> 0]

\* a set that commits the request as the caller passed it
ioctl_s_fmt_cap_CommitRequest(s, type, f) ==
    [sensor |-> [ioctl_try_fmt_cap(s, type, f).sensor EXCEPT !.pix = f],
     f      |-> ioctl_try_fmt_cap(s, type, f).f,
     ret    |-> ioctl_try_fmt_cap(s, type, f).ret]

\* ioctl_s_fmt_cap: ioctl_try_fmt_cap, then "sensor->pix = *pix;"
ioctl_s_fmt_cap(s, type, f) ==
    [sensor |-> [ioctl_try_fmt_cap(s, type, f).sensor
                    EXCEPT !.pix = ioctl_try_fmt_cap(s, type, f).f],
     f      |-> ioctl_try_fmt_cap(s, type, f).f,
     ret    |-> ioctl_try_fmt_cap(s, type, f).ret]

\* ioctl_g_fmt_cap: "f->fmt.pix = sensor->pix;"
ioctl_g_fmt_cap(s) == [sensor |-> s, f |-> s.pix, ret |-> 0]

----------------------------------------------------------------------------
(* The enumerations.                                                       *)

\* A __u32 of the caller is kept as its two 16-bit halves <<high, low>>.
\* (int)u: the value of the same 32 bits as a two's-complement int
ToInt(u) ==
    IF u[1] >= 32768 THEN (u[1] - 65536) * 65536 + u[2] ELSE u[1] * 65536 + u[2]

\* u > n for a __u32 u and a small constant n
Above(u, n) == u[1] > 0 \/ u[2] > n

\* ioctl_enum_framesizes for the encoding and the index the caller passes
ioctl_enum_framesizes(type, pixel_format, index) ==
    IF FindFormat(type, pixel_format) = mt9v032_num_formats(type) + 1
    THEN [ret |-> -EINVAL, discrete |-> <<0, 0>>]
    ELSE IF Above(index, 1)
    THEN [ret |-> -EINVAL, discrete |-> <<0, 0>>]
    ELSE [ret |-> 0, discrete |-> <<MT9V032_MAX_WIDTH, MT9V032_MAX_HEIGHT>>]

\* the descriptor after memset, "fmt->index = index; fmt->type = type;"
ClearedFmt(index, type) ==
    [index |-> index, type |-> type, flags |-> 0, description |-> "", pixelformat |-> ""]

\* ioctl_enum_fmt_cap.  "int index = fmt->index" makes an index of 2^31 and
\* above negative; "index >= mt9v032_num_formats" lets a negative index
\* through and mt9v032_formats[index] is then read outside the list.  That
\* read is undefined: oob is what it produces, memory contents taken for a
\* descriptor or a fault (oops) that ends the call without a return value.
\* entries is the set of list positions read.
ioctl_enum_fmt_cap(type, index, buftype, oob) ==
    IF buftype # V4L2_BUF_TYPE_VIDEO_CAPTURE
    THEN [ret |-> -EINVAL, fmt |-> ClearedFmt(index, buftype), entries |-> {}, oops |-> FALSE]
    ELSE IF ToInt(index) >= mt9v032_num_formats(type)
    THEN [ret |-> -EINVAL, fmt |-> ClearedFmt(index, buftype), entries |-> {}, oops |-> FALSE]
    ELSE IF ToInt(index) >= 0
    THEN [ret |-> 0,
          fmt |-> [ClearedFmt(index, buftype) EXCEPT
                      !.flags = mt9v032_formats(type)[ToInt(index) + 1].flags,
                      !.description = mt9v032_formats(type)[ToInt(index) + 1].description,
                      !.pixelformat = mt9v032_formats(type)[ToInt(index) + 1].pixelformat],
          entries |-> {ToInt(index)}, oops |-> FALSE]
    ELSE IF oob.oops
    THEN [ret |-> 0, fmt |-> ClearedFmt(index, buftype),
          entries |-> {ToInt(index)}, oops |-> TRUE]
    ELSE [ret |-> 0,
          fmt |-> [ClearedFmt(index, buftype) EXCEPT
                      !.flags = oob.flags,
                      !.description = oob.description,
                      !.pixelformat = oob.pixelformat],
          entries |-> {ToInt(index)}, oops |-> FALSE]

----------------------------------------------------------------------------
(* The environment: what the caller passes and what the bus does.          *)

Plan(W, R, V) == [wfail |-> W, rfail |-> R, rval |-> V]

NoOverride == [r \in {} |-> 0]

\* the registers a set-control call may write
CtrlRegs(id) ==
    CASE id \in {"VFLIP", "HFLIP"}            -> {MT9V032_READ_MODE}
      [] id \in {"EXPOSURE_AUTO", "AUTOGAIN"} -> {MT9V032_AEC_AGC_ENABLE}
      [] id = "EXPOSURE" -> {MT9V032_AEC_AGC_ENABLE, MT9V032_TOTAL_SHUTTER_WIDTH}
      [] id = "GAIN"     -> {MT9V032_AEC_AGC_ENABLE, MT9V032_ANALOG_GAIN}
      [] OTHER           -> {}

\* the calls of one behaviour during which the bus may be faulty
MaxBusFaults == 1

NoFault == <<{}, {}>>

\* the caller that sets no control is the one that attaches and detaches
\* the device, negotiates formats, enumerates, and queries and reads the
\* controls
Attacher == ctrls = {}

\* the bus behaviours open to a call: the faulty ones while the budget
\* lasts.  The faults are met by the callers that set controls.
Allowed(F) ==
    IF nfaults < MaxBusFaults /\ ~Attacher THEN F \cup {NoFault} ELSE {NoFault}

\* a call is charged when one of its transfers failed
Charged(l) ==
    IF \E i \in 1..Len(l) : l[i].ev \in {"read", "write"} /\ ~l[i].ok
    THEN nfaults + 1 ELSE nfaults

\* bus behaviours of one set-control call: any of its writes may fail
CtrlFaults(id) == {<<W, {}>> : W \in SUBSET CtrlRegs(id)}

\* bus behaviours of one power call: no fault, a dead bus, the chip-control
\* writes failing
PowerFaults ==
    {<<RegAddrs, RegAddrs>>, <<{MT9V032_CHIP_CONTROL}, {}>>}

\* control identifiers passed by the caller: the six known and one unknown
CtrlIds == KnownIds \cup {"BRIGHTNESS"}

\* the controls one caller sets: a behaviour is driven by one of these groups
CtrlGroups ==
    { {"VFLIP", "HFLIP", "BRIGHTNESS"},
      {"EXPOSURE", "EXPOSURE_AUTO"},
      {"GAIN", "AUTOGAIN"},
      {} }

\* results of v4l2_int_device_register
RegisterResults == {0, -EBUSY}

\* the indices the caller enumerates with: 0, 1, 2, 2^31 and 2^32 - 1
Indices == {<<0, 0>>, <<0, 1>>, <<0, 2>>, <<32768, 0>>, <<65535, 65535>>}

\* the buffer types the caller enumerates: capture and another one
BufTypes == {V4L2_BUF_TYPE_VIDEO_CAPTURE, V4L2_BUF_TYPE_VIDEO_CAPTURE + 1}

\* what a read outside the format list produces: zeroes, the other list's
\* entry, bytes that are no descriptor, or a fault
OutOfBounds ==
    { [oops |-> FALSE, flags |-> 0, description |-> "", pixelformat |-> ""],
      [oops |-> FALSE, flags |-> 0, description |-> "Bayer10 (GrR/BGb)",
       pixelformat |-> "SGRBG10"],
      [oops |-> FALSE, flags |-> 65535, description |-> "?", pixelformat |-> "?"],
      [oops |-> TRUE, flags |-> 0, description |-> "", pixelformat |-> ""] }

\* the out-of-bounds outcomes open to a call: one when nothing is read
\* outside the list
OutcomesFor(index, buftype) ==
    IF ToInt(index) < 0 /\ buftype = V4L2_BUF_TYPE_VIDEO_CAPTURE THEN OutOfBounds
    ELSE {[oops |-> FALSE, flags |-> 0, description |-> "", pixelformat |-> ""]}

\* the formats the caller asks for: each encoding of the two lists and one
\* of neither, at the sensor's size and at another one
FmtRequests ==
    { [ZeroPix EXCEPT !.width = sz[1], !.height = sz[2], !.pixelformat = pf, !.priv = 7] :
         sz \in {<<MT9V032_MAX_WIDTH, MT9V032_MAX_HEIGHT>>, <<640, 240>>},
         pf \in {"SBGGR10", "SGRBG10", "YUYV"} }

\* values the caller passes for a control: for the integer controls a value
\* on each side of the range and values inside it (for the gain an odd code
\* above 32 and the maximum); 0..MaxFlagValue for the boolean ones
MaxFlagValue == 1

CtrlValues(id) ==
    CASE id = "EXPOSURE" -> {1, 300, 481}
      [] id = "GAIN"     -> {15, 33, 64, 65}
      [] OTHER           -> 0..MaxFlagValue

\* the boards: the module parameters given at load time and the version
\* the chip reports.  One board runs the defaults, the other has every
\* parameter away from its default.
Boards ==
    { [auto_exp |-> 1, auto_gain |-> 1, hdr |-> 1, low_light |-> 0,
       hflip |-> 0, vflip |-> 0, sensor_type |-> "color", chip |-> VERSION_1313],
      [auto_exp |-> 0, auto_gain |-> 0, hdr |-> 0, low_light |-> 1,
       hflip |-> 1, vflip |-> 1, sensor_type |-> "mono", chip |-> VERSION_1311] }

\* what a read of the chip-version register may return: the chip's
\* version, or the version of a chip the driver does not know
VersionReads == {chip, VERSION_1311 + 1}

Tunables == [auto_exp |-> auto_exp, auto_gain |-> auto_gain, hdr |-> hdr,
             low_light |-> low_light, hflip |-> hflip, vflip |-> vflip]

----------------------------------------------------------------------------
(* The state machine.                                                      *)

\* the static mt9v032_sensor after mt9v032_init: zero but for shutter, gain
\* and the color bit of pixel_mode
InitSensor(type) ==
    [detected |-> 0, version |-> 0, pix |-> ZeroPix,
     chip_control |-> 0, read_mode |-> 0, aec_agc_enable |-> 0,
     shutter |-> 480, gain |-> 16,
     pixel_mode |-> IF type = "mono" THEN 0 ELSE MT9V032_COLOR_SENSOR,
     adc_mode |-> 0]

Init ==
    /\ \E m \in Boards :
          /\ chip = m.chip
          /\ sensor_type = m.sensor_type
          /\ auto_exp = m.auto_exp
          /\ auto_gain = m.auto_gain
          /\ hdr = m.hdr
          /\ low_light = m.low_light
          /\ hflip = m.hflip
          /\ vflip = m.vflip
    /\ sensor = mt9v032_probe(InitSensor(sensor_type), sensor_type, 0, 0).sensor
    /\ clientdata = 1
    /\ regs = [r \in RegAddrs |-> 0]
    /\ written = {}
    /\ xclk = 0
    /\ power = V4L2_POWER_OFF
    /\ ctrls \in CtrlGroups
    /\ nfaults = 0
    /\ call = [op |-> "init", id |-> "", value |-> 0, ret |-> 0]
    /\ log = <<>>

\* the last set_xclk frequency of a log, or the frequency before it
LastXclk(l, before) ==
    LET X == {i \in 1..Len(l) : l[i].ev = "xclk"}
    IN IF X = {} THEN before ELSE l[CHOOSE i \in X : \A j \in X : j <= i].val

\* the last state set_power was asked for and granted, or the state before
LastPower(l, before) ==
    LET X == {i \in 1..Len(l) : l[i].ev = "power" /\ l[i].ok}
    IN IF X = {} THEN before ELSE l[CHOOSE i \in X : \A j \in X : j <= i].val

\* the registers some write of a log reached
Written(l) == {l[i].reg : i \in {j \in 1..Len(l) : l[j].ev = "write" /\ l[j].ok}}

IoctlSCtrl ==
    \E id \in ctrls :
    \E value \in CtrlValues(id) :
    \E f \in Allowed(CtrlFaults(id)) :
    \E r \in {ioctl_s_ctrl(sensor, Tunables, Bus(regs), Plan(f[1], f[2], NoOverride), id, value)} :
           /\ clientdata = 1
           /\ sensor' = r.sensor
           /\ auto_exp' = r.tun.auto_exp
           /\ auto_gain' = r.tun.auto_gain
           /\ hflip' = r.tun.hflip
           /\ vflip' = r.tun.vflip
           /\ regs' = r.bus.regs
           /\ written' = written \cup Written(r.bus.log)
           /\ log' = r.bus.log
           /\ nfaults' = Charged(r.bus.log)
           /\ call' = [op |-> "s_ctrl", id |-> id, value |-> value, ret |-> r.ret]
           /\ UNCHANGED <<hdr, low_light, sensor_type, chip, xclk, power, clientdata, ctrls>>

IoctlQueryCtrl ==
    \E id \in CtrlIds :
    \E r \in {ioctl_queryctrl(id)} :
           /\ Attacher
           /\ clientdata = 1
           /\ call' = [op |-> "queryctrl", id |-> id, value |-> 0, ret |-> r.ret, vc |-> r.vc]
           /\ UNCHANGED <<sensor, clientdata>>
           /\ log' = <<>>
           /\ UNCHANGED <<auto_exp, auto_gain, hdr, low_light, hflip, vflip, sensor_type,
                          chip, regs, written, xclk, power, ctrls, nfaults>>

IoctlGCtrl ==
    \E id \in CtrlIds :
    \E r \in {ioctl_g_ctrl(sensor, id)} :
           /\ Attacher
           /\ clientdata = 1
           /\ call' = [op |-> "g_ctrl", id |-> id, value |-> r.value, ret |-> r.ret]
           /\ UNCHANGED <<sensor, clientdata>>
           /\ log' = <<>>
           /\ UNCHANGED <<auto_exp, auto_gain, hdr, low_light, hflip, vflip, sensor_type,
                          chip, regs, written, xclk, power, ctrls, nfaults>>

IoctlSPower ==
    \E target \in {V4L2_POWER_OFF, V4L2_POWER_ON, V4L2_POWER_STANDBY} :
    \E prval \in {0, -EIO} :
    \E f \in Allowed(IF prval >= 0 THEN PowerFaults ELSE {}) :
    \E version \in IF target = V4L2_POWER_ON /\ prval >= 0 /\ sensor.detected = 0
                   THEN VersionReads ELSE {chip} :
    \E r \in {ioctl_s_power(sensor, Tunables, Bus(regs),
                              Plan(f[1], f[2], MT9V032_CHIP_VERSION :> version),
                              target, prval)} :
           /\ clientdata = 1
           /\ sensor' = r.sensor
           /\ regs' = r.bus.regs
           /\ written' = written \cup Written(r.bus.log)
           /\ log' = r.bus.log
           /\ xclk' = LastXclk(r.bus.log, xclk)
           /\ power' = LastPower(r.bus.log, power)
           /\ nfaults' = Charged(r.bus.log)
           /\ call' = [op |-> "s_power", id |-> "", value |-> target, ret |-> r.ret]
           /\ UNCHANGED <<auto_exp, auto_gain, hdr, low_light, hflip, vflip, sensor_type, chip,
                          clientdata, ctrls>>

\* what the handlers without bus access leave alone
NoBus ==
    /\ log' = <<>>
    /\ UNCHANGED <<auto_exp, auto_gain, hdr, low_light, hflip, vflip, sensor_type, chip,
                   regs, written, xclk, power, ctrls, nfaults>>

IoctlDevExit ==
    \E r \in {ioctl_dev_exit(sensor)} :
           /\ Attacher
           /\ clientdata = 1
           /\ sensor' = r.sensor
           /\ call' = [op |-> "dev_exit", id |-> "", value |-> 0, ret |-> r.ret]
           /\ UNCHANGED clientdata
           /\ NoBus

IoctlDevInit ==
    \E r \in {ioctl_dev_init(sensor)} :
           /\ Attacher
           /\ clientdata = 1
           /\ sensor' = r.sensor
           /\ call' = [op |-> "dev_init", id |-> "", value |-> 0, ret |-> r.ret]
           /\ UNCHANGED clientdata
           /\ NoBus

\* the call record of a format handler: the request and the descriptor
FmtCall(op, f, r) ==
    [op |-> op, id |-> f.pixelformat, value |-> f.width, ret |-> r.ret,
     req |-> f, fmt |-> r.f]

IoctlTryFmtCap ==
    \E f \in FmtRequests :
    \E r \in {ioctl_try_fmt_cap(sensor, sensor_type, f)} :
           /\ Attacher
           /\ clientdata = 1
           /\ sensor' = r.sensor
           /\ call' = FmtCall("try_fmt", f, r)
           /\ UNCHANGED clientdata
           /\ NoBus

IoctlSFmtCap ==
    \E f \in FmtRequests :
    \E r \in {ioctl_s_fmt_cap(sensor, sensor_type, f)} :
           /\ Attacher
           /\ clientdata = 1
           /\ sensor' = r.sensor
           /\ call' = FmtCall("s_fmt", f, r)
           /\ UNCHANGED clientdata
           /\ NoBus

IoctlGFmtCap ==
    \E r \in {ioctl_g_fmt_cap(sensor)} :
           /\ Attacher
           /\ clientdata = 1
           /\ sensor' = r.sensor
           /\ call' = FmtCall("g_fmt", ZeroPix, r)
           /\ UNCHANGED clientdata
           /\ NoBus

IoctlEnumFramesizes ==
    \E pixel_format \in {"SBGGR10", "SGRBG10", "YUYV"} :
    \E index \in Indices :
    \E r \in {ioctl_enum_framesizes(sensor_type, pixel_format, index)} :
           /\ Attacher
           /\ clientdata = 1
           /\ call' = [op |-> "enum_framesizes", id |-> pixel_format, value |-> ToInt(index),
                       ret |-> r.ret, index |-> index, discrete |-> r.discrete]
           /\ UNCHANGED <<sensor, clientdata>>
           /\ NoBus

IoctlEnumFmtCap ==
    \E index \in Indices :
    \E buftype \in BufTypes :
    \E oob \in OutcomesFor(index, buftype) :
    \E r \in {ioctl_enum_fmt_cap(sensor_type, index, buftype, oob)} :
           /\ Attacher
           /\ clientdata = 1
           /\ call' = [op |-> "enum_fmt", id |-> r.fmt.pixelformat, value |-> buftype,
                       ret |-> r.ret, index |-> index, fmt |-> r.fmt,
                       entries |-> r.entries, oops |-> r.oops]
           /\ UNCHANGED <<sensor, clientdata>>
           /\ NoBus

Remove ==
    \E r \in {mt9v032_remove(sensor)} :
           /\ Attacher
           /\ clientdata = 1
           /\ sensor' = r.sensor
           /\ clientdata' = r.clientdata
           /\ call' = [op |-> "remove", id |-> "", value |-> 0, ret |-> r.ret]
           /\ NoBus

Probe ==
    \E err \in RegisterResults :
    \E r \in {mt9v032_probe(sensor, sensor_type, clientdata, err)} :
           /\ Attacher
           /\ clientdata = 0
           /\ sensor' = r.sensor
           /\ clientdata' = r.clientdata
           /\ call' = [op |-> "probe", id |-> "", value |-> 0, ret |-> r.ret]
           /\ NoBus

Next ==
    \/ IoctlSCtrl
    \/ IoctlQueryCtrl
    \/ IoctlGCtrl
    \/ IoctlSPower
    \/ IoctlDevExit
    \/ IoctlDevInit
    \/ IoctlTryFmtCap
    \/ IoctlSFmtCap
    \/ IoctlGFmtCap
    \/ IoctlEnumFramesizes
    \/ IoctlEnumFmtCap
    \/ Remove
    \/ Probe

Spec == Init /\ [][Next]_vars

----------------------------------------------------------------------------
(* Properties.                                                             *)

\* the write transfers of a log, in order
WritesOf(l) == SelectSeq(l, LAMBDA e : e.ev = "write")

\* the bus behaviours a set-control call may meet, per control
CtrlPlans ==
    [id \in CtrlIds |-> {Plan(f[1], f[2], NoOverride) : f \in CtrlFaults(id)}]

\* the controls with a range, and the range ioctl_queryctrl reports for each
ManualIds == {"EXPOSURE", "GAIN"}
Minimum == [id \in KnownIds |-> ioctl_queryctrl(id).vc.minimum]
Maximum == [id \in KnownIds |-> ioctl_queryctrl(id).vc.maximum]

\* values on both sides of a control's range, near it and far from it
Outside ==
    [id \in ManualIds |->
        ((Minimum[id] - 3)..(Minimum[id] - 1)) \cup ((Maximum[id] + 1)..(Maximum[id] + 3))
            \cup {-1, -65536 + Minimum[id], 65536 + Minimum[id]}]

\* the fields and parameters a rejected set must leave alone
Untouched(s, t) ==
    /\ s.shutter = sensor.shutter
    /\ s.gain = sensor.gain
    /\ s.aec_agc_enable = sensor.aec_agc_enable
    /\ s.read_mode = sensor.read_mode
    /\ t.auto_exp = auto_exp
    /\ t.auto_gain = auto_gain

\* C1: ioctl_s_ctrl for EXPOSURE or GAIN with a value below the minimum or
\* above the maximum ioctl_queryctrl reports (EXPOSURE 2..480, GAIN 16..64)
\* returns an error, issues no register write and leaves shutter, gain,
\* aec_agc_enable, read_mode, auto_exp and auto_gain unchanged.  It holds of
\* every such call the model takes and, in every reachable state, of the
\* handler applied to values on both sides of the range under every bus
\* behaviour.
C1_OutOfRangeRejected ==
    /\ [] ( /\ Minimum["EXPOSURE"] = 2 /\ Maximum["EXPOSURE"] = 480
            /\ Minimum["GAIN"] = 16 /\ Maximum["GAIN"] = 64
            /\ \A id \in ManualIds :
               \A p \in CtrlPlans[id] :
               \A value \in Outside[id] :
                  LET r == ioctl_s_ctrl(sensor, Tunables, Bus(regs), p, id, value)
                  IN /\ r.ret < 0
                     /\ WritesOf(r.bus.log) = <<>>
                     /\ r.bus.regs = regs
                     /\ Untouched(r.sensor, r.tun) )
    /\ [][ ( /\ call'.op = "s_ctrl"
             /\ call'.id \in ManualIds
             /\ (call'.value < Minimum[call'.id] \/ call'.value > Maximum[call'.id]) )
           => /\ call'.ret < 0
              /\ WritesOf(log') = <<>>
              /\ regs' = regs
              /\ Untouched(sensor', Tunables')
         ]_vars

\* set(GAIN, 64) earlier, set(GAIN, 65) just rejected: get(GAIN) is still 64
C1_Witness ==
    /\ call = [op |-> "s_ctrl", id |-> "GAIN", value |-> 65, ret |-> -EINVAL]
    /\ ioctl_g_ctrl(sensor, "GAIN") = [ret |-> 0, value |-> 64]
    /\ log = <<>>

\* the automatic-mode control behind a manual one
AutoOf(id) == IF id = "EXPOSURE" THEN "EXPOSURE_AUTO" ELSE "AUTOGAIN"

\* C2: an accepted (in-range) ioctl_s_ctrl of EXPOSURE is followed by
\* ioctl_g_ctrl(EXPOSURE_AUTO) = 0 and an accepted ioctl_s_ctrl of GAIN by
\* ioctl_g_ctrl(AUTOGAIN) = 0, whatever the automatic mode was before:
\* of every such call the model takes and, in every reachable state, of the
\* handler applied to the ends of the range under every bus behaviour.
C2_ManualSetClearsAuto ==
    /\ [] ( \A id \in ManualIds :
            \A p \in CtrlPlans[id] :
            \A value \in {Minimum[id], Maximum[id]} :
               LET r == ioctl_s_ctrl(sensor, Tunables, Bus(regs), p, id, value)
               IN ioctl_g_ctrl(r.sensor, AutoOf(id)) = [ret |-> 0, value |-> 0] )
    /\ [][ \A id \in ManualIds :
              ( /\ call'.op = "s_ctrl"
                /\ call'.id = id
                /\ call'.value \in Minimum[id]..Maximum[id] )
              => ioctl_g_ctrl(sensor', AutoOf(id)) = [ret |-> 0, value |-> 0]
         ]_vars

\* a manual exposure set after power-on that had to turn the automatic
\* exposure off (it wrote the AEC/AGC enable register)
C2_Witness ==
    /\ call = [op |-> "s_ctrl", id |-> "EXPOSURE", value |-> 300, ret |-> 0]
    /\ sensor.detected = 1
    /\ \E i \in 1..Len(log) :
          log[i].ev = "write" /\ log[i].reg = MT9V032_AEC_AGC_ENABLE
    /\ ioctl_g_ctrl(sensor, "EXPOSURE_AUTO").value = 0
    /\ ioctl_g_ctrl(sensor, "AUTOGAIN").value = 1

\* the gain the chip takes for a requested one: even from 32 on
QuantizedGain(v) == IF v < 32 THEN v ELSE v - (v % 2)

\* what a GAIN set of v must leave: the mirror and the last transfer
GainSet(s, b, v) ==
    /\ ioctl_g_ctrl(s, "GAIN") = [ret |-> 0, value |-> QuantizedGain(v)]
    /\ Len(b.log) > 0
    /\ LET w == b.log[Len(b.log)]
       IN /\ w.ev = "write"
          /\ w.reg = MT9V032_ANALOG_GAIN
          /\ w.val = QuantizedGain(v)
          /\ w.ok => b.regs[MT9V032_ANALOG_GAIN] = QuantizedGain(v)

\* C3: for every v in 16..64, after ioctl_s_ctrl(GAIN, v) the gain
\* ioctl_g_ctrl(GAIN) returns and the value written to the analog-gain
\* register both are v when v < 32 and v with its lowest bit cleared when
\* v >= 32: of the call the model just took and, in every state a caller
\* that sets the gain reaches, of the handler applied to each v of 16..64
\* with every write succeeding and with every write failing.
C3_GainQuantized ==
    /\ QuantizedGain(33) = 32 /\ QuantizedGain(64) = 64 /\ QuantizedGain(31) = 31
    /\ "GAIN" \in ctrls =>
          \A p \in {Plan({}, {}, NoOverride), Plan(CtrlRegs("GAIN"), {}, NoOverride)} :
          \A v \in 16..64 :
             LET r == ioctl_s_ctrl(sensor, Tunables, Bus(regs), p, "GAIN", v)
             IN r.ret = 0 /\ GainSet(r.sensor, r.bus, v)
    /\ (call.op = "s_ctrl" /\ call.id = "GAIN" /\ call.value \in 16..64)
       => GainSet(sensor, [regs |-> regs, log |-> log], call.value)

\* set(GAIN, 33) took 32, in the mirror and in the register
C3_Witness ==
    /\ call = [op |-> "s_ctrl", id |-> "GAIN", value |-> 33, ret |-> 0]
    /\ sensor.gain = 32
    /\ regs[MT9V032_ANALOG_GAIN] = 32
    /\ MT9V032_ANALOG_GAIN \in written

\* the mirrored fields of the sensor structure and the register behind each
Mirrors ==
    { <<"chip_control", MT9V032_CHIP_CONTROL>>,
      <<"read_mode", MT9V032_READ_MODE>>,
      <<"aec_agc_enable", MT9V032_AEC_AGC_ENABLE>>,
      <<"shutter", MT9V032_TOTAL_SHUTTER_WIDTH>>,
      <<"gain", MT9V032_ANALOG_GAIN>>,
      <<"pixel_mode", MT9V032_PIXEL_OPERATION_MODE>>,
      <<"adc_mode", MT9V032_ADC_MODE_CONTROL>> }

\* C4: in every reachable state, bus writes being allowed to fail, each
\* mirrored field (chip_control, read_mode, aec_agc_enable, shutter, gain,
\* pixel_mode, adc_mode) equals the last value successfully written to its
\* register, once that register has been written.
C4_MirrorsMatchRegisters ==
    \A m \in Mirrors : m[2] \in written => sensor[m[1]] = regs[m[2]]

\* C5: when a register write fails during ioctl_s_ctrl for a known control
\* with a value in the range ioctl_queryctrl reports, ioctl_s_ctrl returns an
\* error and issues no further write after the failed one.
C5_WriteFailureSurfaced ==
    ( /\ call.op = "s_ctrl"
      /\ call.id \in KnownIds
      /\ call.value \in Minimum[call.id]..Maximum[call.id] )
    => \A i \in 1..Len(log) :
          (log[i].ev = "write" /\ ~log[i].ok)
          => /\ call.ret < 0
             /\ \A j \in (i + 1)..Len(log) : log[j].ev # "write"

\* the registers mt9v032_configure writes, in its order, and the final
\* chip-control write of mt9v032_start_capture
ConfigureOrder ==
    <<MT9V032_RESET>> \o [i \in 1..Len(reg_default) |-> reg_default[i][1]]
        \o << MT9V032_RESET, MT9V032_HORIZONTAL_BLANKING, MT9V032_VERTICAL_BLANKING,
              MT9V032_CHIP_CONTROL, MT9V032_TOTAL_SHUTTER_WIDTH,
              MT9V032_PIXEL_OPERATION_MODE, MT9V032_READ_MODE, MT9V032_AEC_AGC_ENABLE,
              MT9V032_ADC_MODE_CONTROL, MT9V032_ANALOG_GAIN, MT9V032_MAX_SHUTTER_WIDTH,
              MT9V032_CHIP_CONTROL >>

\* a power-on that returned 0 with every transfer of the call succeeding
GoodPowerOn ==
    /\ call = [op |-> "s_power", id |-> "", value |-> V4L2_POWER_ON, ret |-> 0]
    /\ \A i \in 1..Len(log) : log[i].ok

\* C6: with a platform power call that succeeds and a bus on which every
\* transfer succeeds, every successful s_power(ON), the second of ON,
\* STANDBY, ON and an ON while already ON included, issues the whole
\* configuration sequence (reset, every table entry in order, latch reset,
\* the dependent settings) and ends with the snapshot bit 0x10 clear in the
\* chip_control mirror and in the last value written to the chip-control
\* register.
C6_PowerOnReconfigures ==
    GoodPowerOn =>
        LET w == WritesOf(log)
        IN /\ [i \in 1..Len(w) |-> w[i].reg] = ConfigureOrder
           /\ w[1].val = 3
           /\ \A i \in 1..Len(reg_default) : w[i + 1].val = reg_default[i][2]
           /\ w[Len(reg_default) + 2].val = 1
           /\ ~TestBit(w[Len(w)].val, MT9V032_SNAPSHOT_MODE)
           /\ regs[MT9V032_CHIP_CONTROL] = w[Len(w)].val
           /\ ~TestBit(sensor.chip_control, MT9V032_SNAPSHOT_MODE)

\* a successful ON of a sensor detected by an earlier ON (no version read)
C6_Witness ==
    /\ GoodPowerOn
    /\ power = V4L2_POWER_ON
    /\ \A i \in 1..Len(log) : log[i].reg # MT9V032_CHIP_VERSION \/ log[i].ev # "read"
    /\ Len(WritesOf(log)) = Len(ConfigureOrder)
    /\ sensor.chip_control = 904
    /\ regs[MT9V032_CHIP_CONTROL] = 904

\* the boolean controls: the module parameter, the register and the bit
Flags ==
    { [id |-> "VFLIP", param |-> "vflip", reg |-> MT9V032_READ_MODE,
       mask |-> MT9V032_VERTICAL_FLIP, manual |-> ""],
      [id |-> "HFLIP", param |-> "hflip", reg |-> MT9V032_READ_MODE,
       mask |-> MT9V032_HORIZONTAL_FLIP, manual |-> ""],
      [id |-> "EXPOSURE_AUTO", param |-> "auto_exp", reg |-> MT9V032_AEC_AGC_ENABLE,
       mask |-> MT9V032_AUTO_EXPOSURE, manual |-> "EXPOSURE"],
      [id |-> "AUTOGAIN", param |-> "auto_gain", reg |-> MT9V032_AEC_AGC_ENABLE,
       mask |-> MT9V032_AUTO_GAIN, manual |-> "GAIN"] }

FlagOn(b) == IF b # 0 THEN 1 ELSE 0

\* the value of the last write of a log to a register
LastWrite(l, reg) ==
    LET X == {i \in 1..Len(l) : l[i].ev = "write" /\ l[i].reg = reg}
    IN l[CHOOSE i \in X : \A j \in X : j <= i].val

\* the bus behaviours a power call may meet, the chip answering the version
\* read with its version
PowerPlans ==
    {Plan(f[1], f[2], MT9V032_CHIP_VERSION :> chip) : f \in PowerFaults \cup {NoFault}}

\* what a successful power-on must leave of a boolean control set to b
FlagConfigured(c, s, l, b) ==
    /\ ioctl_g_ctrl(s, c.id) = [ret |-> 0, value |-> FlagOn(b)]
    /\ TestBit(LastWrite(l, c.reg), c.mask) <=> b # 0

\* C7: for VFLIP, HFLIP, EXPOSURE_AUTO and AUTOGAIN, after ioctl_s_ctrl set
\* the control to b, s_power(STANDBY or OFF) and then a successful
\* s_power(ON) leave ioctl_g_ctrl of the control at (b != 0) and the bit
\* configure writes to the read-mode or AEC/AGC-enable register at (b != 0).
\* First conjunct: the power cycle right after the set, under every bus
\* behaviour of the cycle.  Second conjunct: with calls in between.  The set stores b in
\* the control's module parameter, only a set of the control or a manual
\* EXPOSURE/GAIN set of its counterpart changes that parameter, and every
\* successful power-on configures the control from it.
C7_FlagsSurvivePowerCycle ==
    /\ [] ( \A c \in Flags :
               (call.op = "s_ctrl" /\ call.id = c.id)
               => \A down \in {V4L2_POWER_STANDBY, V4L2_POWER_OFF} :
                  \A p \in PowerPlans :
                     LET off == ioctl_s_power(sensor, Tunables, Bus(regs), p, down, 0)
                         on  == ioctl_s_power(off.sensor, Tunables, Bus(off.bus.regs),
                                              p, V4L2_POWER_ON, 0)
                     IN on.ret = 0 => FlagConfigured(c, on.sensor, on.bus.log, call.value) )
    /\ [][ \A c \in Flags :
              /\ (call'.op = "s_ctrl" /\ call'.id = c.id)
                 => Tunables'[c.param] = call'.value
              /\ (call'.op = "s_ctrl" /\ call'.id \notin {c.id, c.manual})
                 => Tunables'[c.param] = Tunables[c.param]
              /\ call'.op = "s_power"
                 => Tunables'[c.param] = Tunables[c.param]
              /\ (call'.op = "s_power" /\ call'.value = V4L2_POWER_ON /\ call'.ret = 0)
                 => FlagConfigured(c, sensor', log', Tunables[c.param])
         ]_vars

\* on the board whose vflip parameter is 0 at load time: VFLIP was set, and
\* the power-on of the detected sensor that just returned configured it
C7_Witness ==
    /\ call = [op |-> "s_power", id |-> "", value |-> V4L2_POWER_ON, ret |-> 0]
    /\ chip = VERSION_1313
    /\ \A i \in 1..Len(log) : log[i].reg # MT9V032_CHIP_VERSION \/ log[i].ev # "read"
    /\ vflip = 1
    /\ ioctl_g_ctrl(sensor, "VFLIP").value = 1
    /\ TestBit(regs[MT9V032_READ_MODE], MT9V032_VERTICAL_FLIP)
    /\ ioctl_g_ctrl(sensor, "HFLIP").value = 0

\* the calls of a power cycle on a bus without faults
GoodPlan == Plan({}, {}, MT9V032_CHIP_VERSION :> chip)

\* C8: after an accepted ioctl_s_ctrl(EXPOSURE, v) or ioctl_s_ctrl(GAIN, g),
\* s_power(STANDBY) followed by a successful s_power(ON) leaves
\* ioctl_g_ctrl(EXPOSURE) = v with the total-shutter-width register holding
\* v, and ioctl_g_ctrl(GAIN) = the quantized g with the analog-gain register
\* holding it.
C8_ManualSelectionSurvives ==
    (call.op = "s_ctrl" /\ call.id \in ManualIds /\ call.ret = 0)
    => LET off == ioctl_s_power(sensor, Tunables, Bus(regs), GoodPlan, V4L2_POWER_STANDBY, 0)
           on  == ioctl_s_power(off.sensor, Tunables, Bus(off.bus.regs),
                                GoodPlan, V4L2_POWER_ON, 0)
       IN on.ret = 0
          => IF call.id = "EXPOSURE"
             THEN /\ ioctl_g_ctrl(on.sensor, "EXPOSURE") = [ret |-> 0, value |-> call.value]
                  /\ on.bus.regs[MT9V032_TOTAL_SHUTTER_WIDTH] = call.value
             ELSE /\ ioctl_g_ctrl(on.sensor, "GAIN")
                        = [ret |-> 0, value |-> QuantizedGain(call.value)]
                  /\ on.bus.regs[MT9V032_ANALOG_GAIN] = QuantizedGain(call.value)

\* the versions mt9v032_detect accepts
AcceptedVersions == {VERSION_1311, VERSION_1313}

\* versions of other chips, 16 bits wide
OtherVersions ==
    {0, 1, VERSION_1311 - 1, VERSION_1311 + 1, VERSION_1313 + 1, 4865, 65535}

\* the detection of a log failed: the version read failed or returned a
\* version that is not accepted
DetectionFailed(l) ==
    \E i \in 1..Len(l) :
       /\ l[i].ev = "read"
       /\ l[i].reg = MT9V032_CHIP_VERSION
       /\ (~l[i].ok \/ l[i].val \notin AcceptedVersions)

\* C9: on s_power(ON) with the device not yet detected, when the
\* chip-version read fails or returns anything but 0x1311 or 0x1313,
\* ioctl_s_power returns an error, detected and version stay as they were,
\* no register write is issued and no mirrored field changes: in every
\* state with the device not detected, of the handler for a failing read and
\* for versions of other chips, and of every such call the model takes.
C9_DetectionFailureLeavesState ==
    /\ AcceptedVersions = {4881, 4883}
    /\ [] ( sensor.detected = 0
            => \A p \in {Plan({}, {MT9V032_CHIP_VERSION}, NoOverride)}
                        \cup {Plan({}, {}, MT9V032_CHIP_VERSION :> v) : v \in OtherVersions} :
                  LET r == ioctl_s_power(sensor, Tunables, Bus(regs), p, V4L2_POWER_ON, 0)
                  IN /\ r.ret < 0
                     /\ r.sensor = sensor
                     /\ WritesOf(r.bus.log) = <<>>
                     /\ r.bus.regs = regs )
    /\ [][ ( /\ call'.op = "s_power"
             /\ call'.value = V4L2_POWER_ON
             /\ sensor.detected = 0
             /\ DetectionFailed(log') )
           => /\ call'.ret < 0
              /\ sensor' = sensor
              /\ WritesOf(log') = <<>>
              /\ regs' = regs
         ]_vars

\* the chip answered with the version of another chip: -ENODEV, still not
\* detected, nothing written
C9_Witness ==
    /\ call = [op |-> "s_power", id |-> "", value |-> V4L2_POWER_ON, ret |-> -ENODEV]
    /\ sensor.detected = 0
    /\ sensor.version = 0
    /\ log[Len(log)] = Event("read", MT9V032_CHIP_VERSION, VERSION_1311 + 1, TRUE)
    /\ written = {}

\* C10: when s_power(ON) is requested from OFF or STANDBY and detection
\* fails, ioctl_s_power returns the error with the pixel clock disabled (the
\* last set_xclk carries 0 Hz) and the platform power state the one before
\* the call.
C10_DetectionFailureRollsBack ==
    [][ ( /\ call'.op = "s_power"
          /\ call'.value = V4L2_POWER_ON
          /\ power \in {V4L2_POWER_OFF, V4L2_POWER_STANDBY}
          /\ DetectionFailed(log') )
        => /\ call'.ret < 0
           /\ LastXclk(log', xclk) = 0
           /\ xclk' = 0
           /\ power' = power
      ]_vars

\* errors the platform's set_power may return
PowerErrors == {-1, -EIO, -ENODEV, -EINVAL}

\* the position of the set_power call in a log
PowerAt(l) == CHOOSE i \in 1..Len(l) : l[i].ev = "power"

\* what a call whose set_power failed must leave in its log: set_xclk(0) as
\* the last clock action and no transfer after the power call
PowerFailureHandled(l) ==
    /\ LastXclk(l, XCLK_HZ) = 0
    /\ \A i \in (PowerAt(l) + 1)..Len(l) : l[i].ev \notin {"read", "write"}

\* C11: for every target state, when the platform set_power callback returns
\* an error, ioctl_s_power returns that error, the last clock action of the
\* call is set_xclk(0), and no register read or write (detection,
\* configuration, start of capture) follows the failed power call: in every
\* reachable state, of the handler for each target, error and bus behaviour,
\* and of every such call the model takes.
C11_PowerFailureSurfaced ==
    /\ [] ( \A target \in {V4L2_POWER_OFF, V4L2_POWER_ON, V4L2_POWER_STANDBY} :
            \A p \in PowerPlans :
            \A prval \in PowerErrors :
               LET r == ioctl_s_power(sensor, Tunables, Bus(regs), p, target, prval)
               IN /\ r.ret = prval
                  /\ PowerFailureHandled(r.bus.log)
                  /\ r.sensor.detected = sensor.detected
                  /\ r.sensor.version = sensor.version )
    /\ [][ ( /\ call'.op = "s_power"
             /\ \E i \in 1..Len(log') : log'[i].ev = "power" /\ ~log'[i].ok )
           => /\ call'.ret = -EIO
              /\ PowerFailureHandled(log')
              /\ xclk' = 0
              /\ power' = power
         ]_vars

\* set_power(ON) failed on a sensor not yet detected: the clock was enabled,
\* then forced off, and the version register was never read
C11_Witness ==
    /\ call = [op |-> "s_power", id |-> "", value |-> V4L2_POWER_ON, ret |-> -EIO]
    /\ log = << Event("xclk", 0, XCLK_HZ, TRUE),
                Event("power", 0, V4L2_POWER_ON, FALSE),
                Event("xclk", 0, 0, TRUE) >>
    /\ sensor.detected = 0
    /\ xclk = 0

\* the device is ON and streaming: detected, powered, clocked, snapshot bit
\* clear in the chip_control mirror
Streaming ==
    /\ sensor.detected = 1
    /\ power = V4L2_POWER_ON
    /\ xclk = XCLK_HZ
    /\ ~TestBit(sensor.chip_control, MT9V032_SNAPSHOT_MODE)

\* C12: when the device is ON and streaming and s_power(STANDBY) or
\* s_power(OFF) fails because the platform power call fails, the device is
\* left in the state it was leaving: after ioctl_s_power returned the error
\* the chip_control mirror still has the snapshot bit clear and the pixel
\* clock is still enabled.
C12_PowerFailureKeepsStreaming ==
    [][ ( /\ Streaming
          /\ call'.op = "s_power"
          /\ call'.value \in {V4L2_POWER_STANDBY, V4L2_POWER_OFF}
          /\ \E i \in 1..Len(log') : log'[i].ev = "power" /\ ~log'[i].ok )
        => /\ call'.ret < 0
           /\ ~TestBit(sensor'.chip_control, MT9V032_SNAPSHOT_MODE)
           /\ xclk' = XCLK_HZ
      ]_vars

\* a log holds a read of the chip-version register
VersionRead(l) ==
    \E i \in 1..Len(l) : l[i].ev = "read" /\ l[i].reg = MT9V032_CHIP_VERSION

\* a log holds a read of the chip-version register that returned an
\* accepted version
VersionAccepted(l) ==
    \E i \in 1..Len(l) :
       /\ l[i] = Event("read", MT9V032_CHIP_VERSION, l[i].val, TRUE)
       /\ l[i].val \in AcceptedVersions

\* the three targets of ioctl_s_power
PowerTargets == {V4L2_POWER_OFF, V4L2_POWER_ON, V4L2_POWER_STANDBY}

\* C13: across the power transitions, the chip-version register is read only
\* during an s_power(ON) made while detected is unset; mt9v032_detect
\* succeeds exactly when the version read is 0x1311 or 0x1313; once a
\* detection succeeded detected stays set, the recorded version never
\* changes, and no later ON reads the version register again.  First
\* conjunct: in every reachable state, of mt9v032_detect for accepted and
\* other versions and a failing read, and of ioctl_s_power for every target
\* on a bus without faults.  Second conjunct: of every call the model takes,
\* bus faults included.
C13_DetectOnce ==
    /\ [] ( /\ \A v \in AcceptedVersions \cup OtherVersions :
                 mt9v032_detect(Bus(regs), Plan({}, {}, MT9V032_CHIP_VERSION :> v))
                    = IF v \in {4881, 4883} THEN v ELSE -ENODEV
            /\ mt9v032_detect(Bus(regs), Plan({}, {MT9V032_CHIP_VERSION}, NoOverride)) = -ENODEV
            /\ \A target \in PowerTargets :
                  LET r == ioctl_s_power(sensor, Tunables, Bus(regs), GoodPlan, target, 0)
                  IN /\ VersionRead(r.bus.log)
                        <=> (target = V4L2_POWER_ON /\ sensor.detected = 0)
                     /\ sensor.detected = 1
                        => r.sensor.detected = 1 /\ r.sensor.version = sensor.version
                     /\ r.sensor.detected = 1
                        => r.sensor.version \in AcceptedVersions )
    /\ [][ /\ VersionRead(log')
              => call'.op = "s_power" /\ call'.value = V4L2_POWER_ON /\ sensor.detected = 0
           /\ sensor.detected = 1
              => /\ sensor'.detected = 1
                 /\ sensor'.version = sensor.version
                 /\ ~VersionRead(log')
           /\ sensor.detected = 0
              => (sensor'.detected = 1 <=> VersionAccepted(log'))
           /\ (sensor.detected = 0 /\ sensor'.detected = 1)
              => Event("read", MT9V032_CHIP_VERSION, sensor'.version, TRUE)
                    \in {log'[i] : i \in 1..Len(log')}
         ]_vars

\* an ON of the sensor detected as 0x1311 by an earlier ON: it configured
\* without a version read, the recorded version still 0x1311
C13_Witness ==
    /\ call = [op |-> "s_power", id |-> "", value |-> V4L2_POWER_ON, ret |-> 0]
    /\ sensor.detected = 1
    /\ sensor.version = VERSION_1311
    /\ ~VersionRead(log)
    /\ Len(log) > 3

\* C14: at device detach (ioctl_dev_exit or mt9v032_remove) the detected
\* flag is cleared, so that the first s_power(ON) after a detach and a
\* re-attach detects the chip again (reads the version register) before it
\* configures.
C14_DetachForgetsDetection ==
    call.op \in {"dev_exit", "remove"}
    => /\ sensor.detected = 0
       /\ VersionRead(
             ioctl_s_power(mt9v032_probe(sensor, sensor_type, 0, 0).sensor, Tunables,
                           Bus(regs), GoodPlan, V4L2_POWER_ON, 0).bus.log)

\* the pixel encodings of the format list selected at module load
SelectedEncodings ==
    {mt9v032_formats(sensor_type)[i].pixelformat : i \in 1..mt9v032_num_formats(sensor_type)}

\* requests of any size, encoding and remaining fields
AnyRequests ==
    [width : {0, 640, 65535}, height : {0, 481},
     pixelformat : {"SBGGR10", "SGRBG10", "YUYV", "GREY", ""},
     field : {4}, bytesperline : {1280}, sizeimage : {614400}, colorspace : {1},
     priv : {7}]

\* what ioctl_try_fmt_cap must return for the request f
Negotiated(f, fmt, ret) ==
    /\ ret = 0
    /\ fmt.width = 752
    /\ fmt.height = 480
    /\ fmt.bytesperline = 1504
    /\ fmt.sizeimage = 721920
    /\ fmt.pixelformat = IF f.pixelformat \in SelectedEncodings THEN f.pixelformat
                         ELSE mt9v032_formats(sensor_type)[1].pixelformat

\* C15: for every requested format (any width, height and pixel encoding)
\* and in every state, ioctl_try_fmt_cap returns success with width 752,
\* height 480, line stride 752*2 = 1504 and byte size 1504*480 = 721920; the
\* pixel encoding returned is the requested one when it is in the selected
\* format list and the first entry of that list otherwise.  Checked of the
\* handler in every state the caller that negotiates formats reaches, and of
\* every call the model takes.
C15_TryFmtFixedSize ==
    /\ [] ( Attacher =>
             \A f \in AnyRequests :
                LET r == ioctl_try_fmt_cap(sensor, sensor_type, f)
                IN Negotiated(f, r.f, r.ret) )
    /\ [][ call'.op = "try_fmt" => Negotiated(call'.req, call'.fmt, call'.ret) ]_vars

\* on the mono board, a try of 640x240 in an encoding the list does not
\* have returned the fixed size in the list's encoding
C15_Witness ==
    /\ call.op = "try_fmt"
    /\ sensor_type = "mono"
    /\ call.req.pixelformat = "YUYV"
    /\ call.req.width = 640
    /\ call.fmt.pixelformat = "SGRBG10"
    /\ call.fmt.sizeimage = 721920
    /\ call.ret = 0

\* C16: ioctl_try_fmt_cap negotiates without taking effect: the descriptor
\* ioctl_g_fmt_cap returns after a try_format call is the one it returned
\* before the call; only ioctl_s_fmt_cap changes the committed format.
C16_TryFmtLeavesCurrent ==
    [][ /\ call'.op = "try_fmt"
           => ioctl_g_fmt_cap(sensor').f = ioctl_g_fmt_cap(sensor).f
        /\ ioctl_g_fmt_cap(sensor').f # ioctl_g_fmt_cap(sensor).f
           => call'.op = "s_fmt"
      ]_vars

C18_OneFrameSize ==
    call.op = "enum_framesizes"
    => IF call.id \in SelectedEncodings /\ call.index = <<0, 0>>
       THEN call.ret = 0 /\ call.discrete = <<752, 480>>
       ELSE call.ret < 0

\* C19: ioctl_enum_fmt_cap returns a format descriptor only for the capture
\* buffer type and an index that addresses an entry of the selected format
\* list (index 0 of the one-entry color or mono list); for every other
\* 32-bit index, those of 2^31 and above that become negative as an int
\* included, it returns an out-of-range error and reads no list entry.
C19_EnumFmtIndexChecked ==
    call.op = "enum_fmt"
    => IF call.value = V4L2_BUF_TYPE_VIDEO_CAPTURE /\ call.index = <<0, 0>>
       THEN /\ call.ret = 0
            /\ call.fmt.pixelformat = mt9v032_formats(sensor_type)[1].pixelformat
            /\ call.entries = {0}
       ELSE /\ call.ret = -EINVAL
            /\ call.entries = {}
            /\ ~call.oops

\* the six control identifiers
SixControls == {"VFLIP", "HFLIP", "EXPOSURE", "GAIN", "EXPOSURE_AUTO", "AUTOGAIN"}

\* identifiers of controls the driver does not have
UnknownIds == {"BRIGHTNESS", "CONTRAST", "HUE", ""}

\* the driver's state is what it was before the call
NothingChanged ==
    /\ log' = <<>>
    /\ sensor' = sensor
    /\ Tunables' = Tunables
    /\ regs' = regs

\* C20: ioctl_queryctrl, ioctl_g_ctrl and ioctl_s_ctrl accept the same six
\* identifiers (VFLIP, HFLIP, EXPOSURE, GAIN, EXPOSURE_AUTO, AUTOGAIN); for
\* any other identifier each of the three returns an error, issues no
\* register bus access and changes no mirrored field and no module
\* parameter.  First conjunct: of the three handlers in every reachable
\* state, for the six (ioctl_s_ctrl with the control's default value),
\* for unknown identifiers and for every value the caller passes with them.
\* Second conjunct: of every call the model takes.
C20_SameSixControls ==
    /\ [] ( /\ KnownIds = SixControls
            /\ \A id \in SixControls :
                  /\ ioctl_queryctrl(id).ret = 0
                  /\ ioctl_g_ctrl(sensor, id).ret = 0
                  /\ ioctl_s_ctrl(sensor, Tunables, Bus(regs), Plan({}, {}, NoOverride), id,
                                  ioctl_queryctrl(id).vc.default_value).ret = 0
            /\ \A id \in UnknownIds :
                  /\ ioctl_queryctrl(id).ret < 0
                  /\ ioctl_g_ctrl(sensor, id).ret < 0
                  /\ \A value \in {0, 1, 16, 480} :
                        LET r == ioctl_s_ctrl(sensor, Tunables, Bus(regs),
                                              Plan({}, {}, NoOverride), id, value)
                        IN /\ r.ret < 0
                           /\ r.bus = Bus(regs)
                           /\ r.sensor = sensor
                           /\ r.tun = Tunables )
    /\ [][ call'.op \in {"queryctrl", "g_ctrl", "s_ctrl"}
           => /\ call'.id \notin SixControls => call'.ret < 0 /\ NothingChanged
              /\ (call'.id \in SixControls /\ call'.op # "s_ctrl") => call'.ret = 0
              /\ (call'.id \in SixControls /\ call'.op = "s_ctrl" /\ call'.ret # 0)
                 => /\ call'.id \in ManualIds
                    /\ call'.value \notin Minimum[call'.id]..Maximum[call'.id]
         ]_vars

\* on the board loaded with vflip=1, after the power-on that configured the
\* flip, a get of an identifier the driver does not have was refused and
\* the flip is still reported
C20_Witness ==
    /\ call = [op |-> "g_ctrl", id |-> "BRIGHTNESS", value |-> 0, ret |-> -EINVAL]
    /\ log = <<>>
    /\ sensor.detected = 1
    /\ ioctl_g_ctrl(sensor, "VFLIP") = [ret |-> 0, value |-> 1]
    /\ ioctl_queryctrl("BRIGHTNESS").ret = -EINVAL

\* the value of a control as the mirrors hold it
Decoded(s, id) ==
    CASE id = "VFLIP"         -> (s.read_mode \div 16) % 2
      [] id = "HFLIP"         -> (s.read_mode \div 32) % 2
      [] id = "EXPOSURE"      -> s.shutter
      [] id = "GAIN"          -> s.gain
      [] id = "EXPOSURE_AUTO" -> s.aec_agc_enable % 2
      [] id = "AUTOGAIN"      -> (s.aec_agc_enable \div 2) % 2

\* a sensor structure with the mirrors read_mode, aec_agc_enable, shutter and
\* gain of s and every other field different
OtherSensor(s) ==
    [s EXCEPT !.detected = 1 - @, !.version = 0 - @, !.chip_control = 65535 - @,
              !.pixel_mode = @ + 1, !.adc_mode = @ + 1, !.pix = ZeroPix]

\* C21: ioctl_g_ctrl is a pure read of the mirrored state: for every control
\* identifier and in every state it issues no register read or write and
\* leaves the sensor state and the module parameters unchanged, and its
\* result is a function of the mirrors only (bits 0x10/0x20 of read_mode,
\* bits 0x01/0x02 of aec_agc_enable, shutter, gain).  First conjunct: of the
\* handler in every reachable state.  Second conjunct: of every get the
\* model takes.
C21_GetIsPureRead ==
    /\ [] ( \A id \in CtrlIds \cup UnknownIds :
               /\ id \in SixControls
                  => ioctl_g_ctrl(sensor, id) = [ret |-> 0, value |-> Decoded(sensor, id)]
               /\ ioctl_g_ctrl(OtherSensor(sensor), id) = ioctl_g_ctrl(sensor, id) )
    /\ [][ call'.op = "g_ctrl"
           => /\ NothingChanged
              /\ UNCHANGED <<written, xclk, power, clientdata, hdr, low_light>>
              /\ call'.id \in SixControls
                 => call'.ret = 0 /\ call'.value = Decoded(sensor, call'.id)
         ]_vars

\* after a power-on configured the sensor, a get of EXPOSURE returned the
\* shutter mirror configure computed, without a transfer
C21_Witness ==
    /\ call = [op |-> "g_ctrl", id |-> "EXPOSURE", value |-> 566, ret |-> 0]
    /\ sensor.shutter = 566
    /\ regs[MT9V032_TOTAL_SHUTTER_WIDTH] = 566
    /\ log = <<>>

\* the automatic-mode controls, the enable bit and the module parameter of each
AutoIds == {"EXPOSURE_AUTO", "AUTOGAIN"}
EnableBit == [id \in AutoIds |-> IF id = "EXPOSURE_AUTO" THEN MT9V032_AUTO_EXPOSURE ELSE MT9V032_AUTO_GAIN]
EnableParam == [id \in AutoIds |-> IF id = "EXPOSURE_AUTO" THEN "auto_exp" ELSE "auto_gain"]

\* values passed to a boolean control: zero, one, and integers that are neither
AnyFlagValues == {-1, 0, 1, 2, 16, 65536}

\* the word w with the bit of weight m set to (x # 0) and its other bits kept
WithBit(w, m, x) == w + m * (FlagOn(x) - ((w \div m) % 2))

\* every event of the log l is a write to register reg, and there is one
OnlyWrite(l, reg) ==
    /\ Len(l) = 1
    /\ l[1].ev = "write"
    /\ l[1].reg = reg

\* C22: ioctl_s_ctrl of EXPOSURE_AUTO or AUTOGAIN changes only its own
\* enable bit (0x01 or 0x02) in the aec_agc_enable mirror and its own module
\* parameter, and writes only the AEC/AGC-enable register: the shutter and
\* gain mirrors, the other enable bit, read_mode, chip_control and the
\* total-shutter-width and analog-gain registers are left unchanged.  First
\* conjunct: of the handler in every reachable state, for values of every
\* kind and every bus behaviour.  Second conjunct: of every such call the
\* model takes.
C22_AutoToggleFrame ==
    /\ [] ( \A id \in AutoIds :
            \A p \in CtrlPlans[id] :
            \A value \in AnyFlagValues :
               LET r == ioctl_s_ctrl(sensor, Tunables, Bus(regs), p, id, value)
               IN /\ r.sensor = [sensor EXCEPT !.aec_agc_enable =
                                     WithBit(sensor.aec_agc_enable, EnableBit[id], value)]
                  /\ r.tun = [Tunables EXCEPT ![EnableParam[id]] = value]
                  /\ OnlyWrite(r.bus.log, MT9V032_AEC_AGC_ENABLE)
                  /\ r.bus.log[1].val = r.sensor.aec_agc_enable
                  /\ r.bus.regs = [regs EXCEPT ![MT9V032_AEC_AGC_ENABLE] =
                                       r.bus.regs[MT9V032_AEC_AGC_ENABLE]] )
    /\ [][ \A id \in AutoIds :
              (call'.op = "s_ctrl" /\ call'.id = id)
              => /\ sensor' = [sensor EXCEPT !.aec_agc_enable =
                                   WithBit(sensor.aec_agc_enable, EnableBit[id], call'.value)]
                 /\ Tunables' = [Tunables EXCEPT ![EnableParam[id]] = call'.value]
                 /\ OnlyWrite(log', MT9V032_AEC_AGC_ENABLE)
                 /\ regs'[MT9V032_TOTAL_SHUTTER_WIDTH] = regs[MT9V032_TOTAL_SHUTTER_WIDTH]
                 /\ regs'[MT9V032_ANALOG_GAIN] = regs[MT9V032_ANALOG_GAIN]
                 /\ regs'[MT9V032_READ_MODE] = regs[MT9V032_READ_MODE]
                 /\ regs'[MT9V032_CHIP_CONTROL] = regs[MT9V032_CHIP_CONTROL]
         ]_vars

\* on the powered and configured sensor with both automatic modes on, the
\* automatic exposure was turned off: the gain bit stayed set in the mirror
\* and in the register, and so did the automatic-gain parameter
C22_Witness ==
    /\ call = [op |-> "s_ctrl", id |-> "EXPOSURE_AUTO", value |-> 0, ret |-> 0]
    /\ sensor.detected = 1
    /\ sensor.aec_agc_enable = MT9V032_AUTO_GAIN
    /\ regs[MT9V032_AEC_AGC_ENABLE] = MT9V032_AUTO_GAIN
    /\ auto_exp = 0
    /\ auto_gain = 1
    /\ OnlyWrite(log, MT9V032_AEC_AGC_ENABLE)

\* the flip controls, the read-mode bit and the module parameter of each
FlipIds == {"VFLIP", "HFLIP"}
FlipBit == [id \in FlipIds |-> IF id = "VFLIP" THEN 16 ELSE 32]
FlipParam == [id \in FlipIds |-> IF id = "VFLIP" THEN "vflip" ELSE "hflip"]

\* C23: ioctl_s_ctrl of VFLIP (HFLIP) with value x sets bit 0x10 (0x20) of
\* the read_mode mirror to (x # 0) for every integer x, leaves every other
\* bit of read_mode unchanged (the other flip bit among them), writes the
\* resulting mirror to the read-mode register as its only bus access, and a
\* following ioctl_g_ctrl of that control returns 1 if x # 0 and 0
\* otherwise.  First conjunct: of the handler in every reachable state, for
\* values of every kind and every bus behaviour.  Second conjunct: of every
\* such call the model takes.
C23_FlipSetsItsBit ==
    /\ [] ( \A id \in FlipIds :
            \A p \in CtrlPlans[id] :
            \A value \in AnyFlagValues :
               LET r == ioctl_s_ctrl(sensor, Tunables, Bus(regs), p, id, value)
               IN /\ r.ret = 0
                  /\ r.sensor.read_mode = WithBit(sensor.read_mode, FlipBit[id], value)
                  /\ OnlyWrite(r.bus.log, MT9V032_READ_MODE)
                  /\ r.bus.log[1].val = r.sensor.read_mode
                  /\ ioctl_g_ctrl(r.sensor, id) = [ret |-> 0, value |-> FlagOn(value)]
                  /\ \A other \in FlipIds \ {id} :
                        ioctl_g_ctrl(r.sensor, other) = ioctl_g_ctrl(sensor, other) )
    /\ [][ \A id \in FlipIds :
              (call'.op = "s_ctrl" /\ call'.id = id)
              => /\ call'.ret = 0
                 /\ sensor'.read_mode = WithBit(sensor.read_mode, FlipBit[id], call'.value)
                 /\ OnlyWrite(log', MT9V032_READ_MODE)
                 /\ log'[1].val = sensor'.read_mode
                 /\ ioctl_g_ctrl(sensor', id) = [ret |-> 0, value |-> FlagOn(call'.value)]
         ]_vars

\* on the powered sensor configured with both flips on, the vertical flip
\* was turned off: bit 0x10 is clear and bit 0x20 still set in the mirror
\* and in the register, and the gets report 0 and 1
C23_Witness ==
    /\ call = [op |-> "s_ctrl", id |-> "VFLIP", value |-> 0, ret |-> 0]
    /\ sensor.detected = 1
    /\ ~TestBit(sensor.read_mode, 16)
    /\ TestBit(sensor.read_mode, 32)
    /\ regs[MT9V032_READ_MODE] = sensor.read_mode
    /\ OnlyWrite(log, MT9V032_READ_MODE)
    /\ ioctl_g_ctrl(sensor, "VFLIP").value = 0
    /\ ioctl_g_ctrl(sensor, "HFLIP").value = 1

\* C24: the bounds ioctl_s_ctrl enforces are the descriptor's: for every v
\* with minimum <= v <= maximum as ioctl_queryctrl(EXPOSURE) reports them
\* (2..480), ioctl_s_ctrl(EXPOSURE, v) succeeds, writes v to the
\* total-shutter-width register, and a following ioctl_g_ctrl(EXPOSURE)
\* returns v.  First conjunct: the reported range.  Second conjunct: of the
\* handler with every value of the range, in every reachable state of the
\* caller that sets the exposure, and with the ends of the range under every
\* bus behaviour in every reachable state.  Third conjunct: of every such
\* call the model takes.
C24_ExposureRangeAccepted ==
    /\ [] ( /\ Minimum["EXPOSURE"] = 2
            /\ Maximum["EXPOSURE"] = 480 )
    /\ [] ( /\ "EXPOSURE" \in ctrls
               => \A v \in Minimum["EXPOSURE"]..Maximum["EXPOSURE"] :
                     LET r == ioctl_s_ctrl(sensor, Tunables, Bus(regs), Plan({}, {}, NoOverride), "EXPOSURE", v)
                     IN /\ r.ret = 0
                        /\ r.bus.log[Len(r.bus.log)] =
                              Event("write", MT9V032_TOTAL_SHUTTER_WIDTH, v, TRUE)
                        /\ r.bus.regs[MT9V032_TOTAL_SHUTTER_WIDTH] = v
                        /\ ioctl_g_ctrl(r.sensor, "EXPOSURE") = [ret |-> 0, value |-> v]
            /\ \A p \in CtrlPlans["EXPOSURE"] :
               \A v \in {Minimum["EXPOSURE"], Maximum["EXPOSURE"]} :
                  LET r == ioctl_s_ctrl(sensor, Tunables, Bus(regs), p, "EXPOSURE", v)
                  IN /\ r.ret = 0
                     /\ r.bus.log[Len(r.bus.log)].ev = "write"
                     /\ r.bus.log[Len(r.bus.log)].reg = MT9V032_TOTAL_SHUTTER_WIDTH
                     /\ r.bus.log[Len(r.bus.log)].val = v
                     /\ ioctl_g_ctrl(r.sensor, "EXPOSURE") = [ret |-> 0, value |-> v] )
    /\ [][ ( /\ call'.op = "s_ctrl"
             /\ call'.id = "EXPOSURE"
             /\ call'.value \in Minimum["EXPOSURE"]..Maximum["EXPOSURE"] )
           => /\ call'.ret = 0
              /\ log'[Len(log')].ev = "write"
              /\ log'[Len(log')].reg = MT9V032_TOTAL_SHUTTER_WIDTH
              /\ log'[Len(log')].val = call'.value
              /\ ioctl_g_ctrl(sensor', "EXPOSURE") = [ret |-> 0, value |-> call'.value]
         ]_vars

\* an exposure inside the range was set on the powered sensor while the
\* automatic exposure was already off: the one write carried the value, the
\* register holds it and the get returns it
C24_Witness ==
    /\ call = [op |-> "s_ctrl", id |-> "EXPOSURE", value |-> 300, ret |-> 0]
    /\ sensor.detected = 1
    /\ log = <<Event("write", MT9V032_TOTAL_SHUTTER_WIDTH, 300, TRUE)>>
    /\ regs[MT9V032_TOTAL_SHUTTER_WIDTH] = 300
    /\ ioctl_g_ctrl(sensor, "EXPOSURE") = [ret |-> 0, value |-> 300]

\* the registers written by the log l, in the order of the writes
WriteOrder(l) ==
    LET w == WritesOf(l)
    IN [i \in 1..Len(w) |-> w[i].reg]

\* the platform's set_power call of the log l succeeded
PowerGranted(l) == \E i \in 1..Len(l) : l[i].ev = "power" /\ l[i].ok

\* C25: the power state machine has no permanent failure state: from every
\* state reachable by s_power calls (those that failed through a platform
\* power error or a detection error included) and control operations, an
\* s_power(ON) call in which the platform power call succeeds and the chip
\* reports version 0x1311 or 0x1313 returns success and ends with the device
\* detected, configured and streaming.  First conjunct: of the handler in
\* every reachable state, the platform and the bus working.  Second
\* conjunct: of every ON call the model takes whose power call succeeded and
\* whose detection did not fail; the registers are as configured when the
\* transfers of the call succeeded.
C25_NoPermanentFailure ==
    /\ [] ( LET r == ioctl_s_power(sensor, Tunables, Bus(regs), GoodPlan, V4L2_POWER_ON, 0)
            IN /\ r.ret = 0
               /\ r.sensor.detected = 1
               /\ r.sensor.version \in AcceptedVersions
               /\ WriteOrder(r.bus.log) = ConfigureOrder
               /\ ~TestBit(r.sensor.chip_control, MT9V032_SNAPSHOT_MODE)
               /\ r.bus.regs[MT9V032_CHIP_CONTROL] = r.sensor.chip_control
               /\ LastXclk(r.bus.log, 0) = XCLK_HZ
               /\ LastPower(r.bus.log, V4L2_POWER_OFF) = V4L2_POWER_ON )
    /\ [][ ( /\ call'.op = "s_power"
             /\ call'.value = V4L2_POWER_ON
             /\ PowerGranted(log')
             /\ ~DetectionFailed(log') )
           => /\ call'.ret = 0
              /\ sensor'.detected = 1
              /\ sensor'.version \in AcceptedVersions
              /\ WriteOrder(log') = ConfigureOrder
              /\ ~TestBit(sensor'.chip_control, MT9V032_SNAPSHOT_MODE)
              /\ xclk' = XCLK_HZ
              /\ power' = V4L2_POWER_ON
              /\ (\A i \in 1..Len(log') : log'[i].ok)
                 => regs'[MT9V032_CHIP_CONTROL] = sensor'.chip_control
         ]_vars

\* the state a failed detection left (power and clock on, nothing detected),
\* from which an ON with the chip answering detects, configures and streams
C25_Witness ==
    /\ call = [op |-> "s_power", id |-> "", value |-> V4L2_POWER_ON, ret |-> -ENODEV]
    /\ DetectionFailed(log)
    /\ sensor.detected = 0
    /\ power = V4L2_POWER_ON
    /\ ioctl_s_power(sensor, Tunables, Bus(regs), GoodPlan, V4L2_POWER_ON, 0).ret = 0
    /\ ioctl_s_power(sensor, Tunables, Bus(regs), GoodPlan, V4L2_POWER_ON, 0).sensor.detected = 1
    /\ ~TestBit(ioctl_s_power(sensor, Tunables, Bus(regs), GoodPlan, V4L2_POWER_ON, 0)
                   .bus.regs[MT9V032_CHIP_CONTROL], MT9V032_SNAPSHOT_MODE)

\* a bus on which every transfer fails, and one on which every transfer but
\* the read of the chip version fails
DeadBus == Plan(RegAddrs, RegAddrs, NoOverride)
OnlyVersionRead == Plan(RegAddrs, RegAddrs \ {MT9V032_CHIP_VERSION}, MT9V032_CHIP_VERSION :> chip)

\* every register read and write of the log l failed, but for reads of reg
AllFailedBut(l, reg) ==
    \A i \in 1..Len(l) :
       (l[i].ev \in {"read", "write"} /\ ~(l[i].ev = "read" /\ l[i].reg = reg)) => ~l[i].ok

\* C26: mt9v032_configure returns success for every outcome of its register
\* reads and writes, and ioctl_s_power(ON) returns success whenever the
\* platform power call and the chip detection succeed, even if every
\* register write and read issued by configure and start-capture fails.
\* First conjunct: in every reachable state, of mt9v032_configure on a bus
\* where every transfer fails, and of ioctl_s_power(ON) on a bus where only
\* the version read succeeds.  Second conjunct: of every ON call the model
\* takes whose power call succeeded and whose detection did not fail.
C26_ConfigureAlwaysSucceeds ==
    /\ [] ( /\ LET c == mt9v032_configure(sensor, Tunables, Bus(regs), DeadBus)
               IN /\ c.ret = 0
                  /\ AllFailedBut(c.bus.log, 0)
                  /\ Len(WritesOf(c.bus.log)) = Len(ConfigureOrder) - 1
            /\ LET r == ioctl_s_power(sensor, Tunables, Bus(regs), OnlyVersionRead,
                                      V4L2_POWER_ON, 0)
               IN /\ r.ret = 0
                  /\ AllFailedBut(r.bus.log, MT9V032_CHIP_VERSION)
                  /\ Len(WritesOf(r.bus.log)) = Len(ConfigureOrder) )
    /\ [][ ( /\ call'.op = "s_power"
             /\ call'.value = V4L2_POWER_ON
             /\ PowerGranted(log')
             /\ ~DetectionFailed(log') )
           => /\ call'.ret = 0
              /\ Len(WritesOf(log')) = Len(ConfigureOrder)
         ]_vars

\* an ON of the detected sensor on a bus where every transfer failed: the
\* whole sequence was issued, no write reached a register, the call
\* returned 0
C26_Witness ==
    /\ call = [op |-> "s_power", id |-> "", value |-> V4L2_POWER_ON, ret |-> 0]
    /\ sensor.detected = 1
    /\ PowerGranted(log)
    /\ AllFailedBut(log, 0)
    /\ Len(WritesOf(log)) = Len(ConfigureOrder)
    /\ \E i \in 1..Len(log) : log[i].ev = "read" /\ ~log[i].ok

\* the targets that take the power away
OffTargets == {V4L2_POWER_STANDBY, V4L2_POWER_OFF}

\* the positions of the events of kind ev in the log l
At(l, ev) == {i \in 1..Len(l) : l[i].ev = ev}

\* the steps of a power-down of the sensor s in order: the stop-capture
\* write if s was detected, the delay, the clock disable, the power call
\* (and the clock disable again when the power call failed)
PowerDownSteps(s, p, target, prval) ==
    (IF s.detected = 1
     THEN <<Event("write", MT9V032_CHIP_CONTROL,
                  OrBit(s.chip_control, MT9V032_SNAPSHOT_MODE),
                  MT9V032_CHIP_CONTROL \notin p.wfail)>>
     ELSE <<>>)
    \o <<Event("delay", 0, 50, TRUE), Event("xclk", 0, 0, TRUE),
         Event("power", 0, target, prval >= 0)>>
    \o (IF prval < 0 THEN <<Event("xclk", 0, 0, TRUE)>> ELSE <<>>)

\* the order of a power-down, of the log l of a call made with the detected
\* flag at d
PowerDownOrder(l, d) ==
    /\ At(l, "read") = {}
    /\ At(l, "write") = (IF d = 1 THEN {1} ELSE {})
    /\ \A i \in At(l, "write") :
          l[i].reg = MT9V032_CHIP_CONTROL /\ TestBit(l[i].val, MT9V032_SNAPSHOT_MODE)
    /\ \E i \in At(l, "delay") : \E j \in At(l, "xclk") : \E k \in At(l, "power") :
          /\ \A w \in At(l, "write") : w < i
          /\ i < j
          /\ j < k
          /\ \A x \in At(l, "xclk") : j <= x /\ l[x].val = 0
          /\ At(l, "delay") = {i}
          /\ At(l, "power") = {k}

\* C27: in every ioctl_s_power call with target STANDBY or OFF the steps
\* happen in this order: the stop-capture write of chip control with the
\* snapshot bit set (issued if and only if the detected flag is set), then
\* the settle delay, then set_xclk with 0 Hz, then the platform set_power
\* call; no register access follows the clock disable.  First conjunct: of
\* the handler in every reachable state, for both targets, a power call
\* that succeeds or fails, and every bus behaviour.  Second conjunct: of
\* every such call the model takes.
C27_PowerDownOrder ==
    /\ [] ( \A target \in OffTargets :
            \A prval \in {0, -EIO} :
            \A p \in PowerPlans :
               LET r == ioctl_s_power(sensor, Tunables, Bus(regs), p, target, prval)
               IN /\ r.bus.log = PowerDownSteps(sensor, p, target, prval)
                  /\ PowerDownOrder(r.bus.log, sensor.detected) )
    /\ [][ (call'.op = "s_power" /\ call'.value \in OffTargets)
           => PowerDownOrder(log', sensor.detected)
         ]_vars

\* a STANDBY of the streaming sensor: the chip-control write with the
\* snapshot bit, the 50 ms delay, the clock disable, the power call
C27_Witness ==
    /\ call = [op |-> "s_power", id |-> "", value |-> V4L2_POWER_STANDBY, ret |-> 0]
    /\ sensor.detected = 1
    /\ Len(log) = 4
    /\ log[1].ev = "write" /\ log[1].reg = MT9V032_CHIP_CONTROL /\ log[1].ok
    /\ TestBit(log[1].val, MT9V032_SNAPSHOT_MODE)
    /\ log[2] = Event("delay", 0, 50, TRUE)
    /\ log[3] = Event("xclk", 0, 0, TRUE)
    /\ log[4] = Event("power", 0, V4L2_POWER_STANDBY, TRUE)
    /\ xclk = 0

\* the positions of the chip-version reads in the log l
VersionReadAt(l) ==
    {i \in At(l, "read") : l[i].reg = MT9V032_CHIP_VERSION}

\* the order of a power-on, of the log l of a call made with the detected
\* flag at d that returned ret: the clock, the power call, the version read
\* if d is unset, then, when the call went through, the writes of the
\* configuration and last the start-capture write
PowerOnOrder(l, d, ret) ==
    LET n == Len(l)
        first == IF d = 0 /\ l[2].ok THEN 4 ELSE 3
    IN /\ n >= 2
       /\ l[1] = Event("xclk", 0, XCLK_HZ, TRUE)
       /\ l[2].ev = "power" /\ l[2].val = V4L2_POWER_ON
       /\ VersionReadAt(l) = (IF first = 4 THEN {3} ELSE {})
       /\ \A i \in 3..n :
             /\ l[i].ev # "power"
             /\ l[i].ev = "write" => (i >= first /\ ret = 0)
             /\ l[i].ev = "xclk" => ret # 0
       /\ ret = 0
          => /\ l[first].ev = "write"
             /\ l[first].reg = MT9V032_RESET
             /\ l[n].ev = "write"
             /\ l[n].reg = MT9V032_CHIP_CONTROL
             /\ ~TestBit(l[n].val, MT9V032_SNAPSHOT_MODE)

\* C28: in every ioctl_s_power call with target ON the steps happen in this
\* order: set_xclk with 27000000 Hz, then the platform set_power call, then
\* (only if not yet detected) the chip-version read, then the configuration
\* sequence, then the start-capture write that clears the snapshot bit; no
\* register access precedes the platform power call.  First conjunct: of the
\* handler on a working bus, in every reachable state of the caller that sets
\* no control.  Second conjunct: of every ON call the model
\* takes, failing power calls, failing detections and bus faults included.
C28_PowerOnOrder ==
    /\ [] ( Attacher
            => LET r == ioctl_s_power(sensor, Tunables, Bus(regs), GoodPlan, V4L2_POWER_ON, 0)
               IN /\ r.ret = 0
                  /\ PowerOnOrder(r.bus.log, sensor.detected, 0)
                  /\ WriteOrder(r.bus.log) = ConfigureOrder
                  /\ r.bus.log[2].ok )
    /\ [][ (call'.op = "s_power" /\ call'.value = V4L2_POWER_ON)
           => PowerOnOrder(log', sensor.detected, call'.ret)
         ]_vars

\* an ON that detected the chip: clock, power call, the version read, the
\* first write of the configuration (reset) and last the chip-control write
\* with the snapshot bit clear
C28_Witness ==
    /\ call = [op |-> "s_power", id |-> "", value |-> V4L2_POWER_ON, ret |-> 0]
    /\ Len(log) > 4
    /\ log[1] = Event("xclk", 0, XCLK_HZ, TRUE)
    /\ log[2] = Event("power", 0, V4L2_POWER_ON, TRUE)
    /\ log[3] = Event("read", MT9V032_CHIP_VERSION, chip, TRUE)
    /\ log[4] = Event("write", MT9V032_RESET, 3, TRUE)
    /\ log[Len(log)].ev = "write" /\ log[Len(log)].reg = MT9V032_CHIP_CONTROL
    /\ ~TestBit(log[Len(log)].val, MT9V032_SNAPSHOT_MODE)

\* the number of entries of the table
NumDefaults == Len(reg_default)

\* the kind and the register of each event of the log l
Kinds(l) == [i \in 1..Len(l) |-> <<l[i].ev, l[i].reg>>]

\* the dependent settings in the order of the code: each write, and the read
\* some of them make first
DependentSteps ==
    << <<"write", MT9V032_HORIZONTAL_BLANKING>>, <<"write", MT9V032_VERTICAL_BLANKING>>,
       <<"read", MT9V032_CHIP_CONTROL>>, <<"write", MT9V032_CHIP_CONTROL>>,
       <<"read", MT9V032_WINDOW_HEIGHT>>, <<"write", MT9V032_TOTAL_SHUTTER_WIDTH>>,
       <<"read", MT9V032_PIXEL_OPERATION_MODE>>, <<"write", MT9V032_PIXEL_OPERATION_MODE>>,
       <<"read", MT9V032_READ_MODE>>, <<"write", MT9V032_READ_MODE>>,
       <<"read", MT9V032_AEC_AGC_ENABLE>>, <<"write", MT9V032_AEC_AGC_ENABLE>>,
       <<"write", MT9V032_ADC_MODE_CONTROL>>,
       <<"read", MT9V032_MAXIMUM_ANALOG_GAIN>>, <<"write", MT9V032_ANALOG_GAIN>>,
       <<"write", MT9V032_MAX_SHUTTER_WIDTH>> >>

\* the steps of a configuration in order: reset 3 and the wait, the table
\* writes, reset 1 and the wait, the verification reads, the dependent
\* settings
ConfigureSteps ==
    << <<"write", MT9V032_RESET>>, <<"delay", 0>> >>
    \o [i \in 1..NumDefaults |-> <<"write", reg_default[i][1]>>]
    \o << <<"write", MT9V032_RESET>>, <<"delay", 0>> >>
    \o [i \in 1..NumDefaults |-> <<"read", reg_default[i][1]>>]
    \o DependentSteps

\* the log l holds, from position k on, the writes of a configuration up to
\* the reset that latches them: reset 3, every table entry once, in table
\* order and with its value, reset 1; and no read comes before that reset
TableWritten(l, k) ==
    /\ Len(l) >= k + NumDefaults + 2
    /\ <<l[k].ev, l[k].reg, l[k].val>> = <<"write", MT9V032_RESET, 3>>
    /\ \A i \in 1..NumDefaults :
          <<l[k + 1 + i].ev, l[k + 1 + i].reg, l[k + 1 + i].val>>
             = <<"write", reg_default[i][1], reg_default[i][2]>>
    /\ <<l[k + NumDefaults + 2].ev, l[k + NumDefaults + 2].reg, l[k + NumDefaults + 2].val>>
          = <<"write", MT9V032_RESET, 1>>
    /\ l[k + 1].ev = "delay"

\* C29: every run of mt9v032_configure writes 0x0003 to the reset register
\* first, then writes each entry of the reg_default table exactly once and in
\* table order with its table value, then writes 0x0001 to the reset
\* register, and only after that performs the verification reads and the
\* dependent-setting writes (blanking, chip control, shutter, pixel mode,
\* read mode, AEC/AGC enable, ADC mode, analog gain, maximum shutter width,
\* in that order).  First conjunct: of mt9v032_configure in every reachable
\* state, on a working bus.  Second conjunct: of every power-on of the model
\* that configured, bus faults included.
C29_ConfigureOrder ==
    /\ [] ( LET l == mt9v032_configure(sensor, Tunables, Bus(regs), GoodPlan).bus.log
            IN /\ Kinds(l) = ConfigureSteps
               /\ TableWritten(l, 1) )
    /\ [][ (call'.op = "s_power" /\ call'.value = V4L2_POWER_ON /\ call'.ret = 0)
           => LET k == IF sensor.detected = 0 THEN 4 ELSE 3
              IN /\ TableWritten(log', k)
                 /\ Len(log') = k + Len(ConfigureSteps)
                 /\ log'[k + NumDefaults + 4].ev = "read"
         ]_vars

\* a power-on of the detected sensor configured: after the clock and the
\* power call come reset 3, the first and the last table entry, reset 1, the
\* first verification read and, last before the start write, the write of
\* the maximum shutter width
C29_Witness ==
    /\ call = [op |-> "s_power", id |-> "", value |-> V4L2_POWER_ON, ret |-> 0]
    /\ ~VersionRead(log)
    /\ Len(log) = 2 + Len(ConfigureSteps) + 1
    /\ log[3] = Event("write", MT9V032_RESET, 3, TRUE)
    /\ log[5] = Event("write", reg_default[1][1], reg_default[1][2], TRUE)
    /\ log[4 + NumDefaults] = Event("write", reg_default[NumDefaults][1],
                                    reg_default[NumDefaults][2], TRUE)
    /\ log[5 + NumDefaults] = Event("write", MT9V032_RESET, 1, TRUE)
    /\ log[7 + NumDefaults].ev = "read" /\ log[7 + NumDefaults].reg = reg_default[1][1]
    /\ log[Len(log) - 1].ev = "write" /\ log[Len(log) - 1].reg = MT9V032_MAX_SHUTTER_WIDTH

\* mt9v032_configure with the transfers of the table and verification part
\* meeting the bus behaviour pv and those of the dependent settings p
ConfigureWith(s, t, b0, pv, p) ==
    WithRet(
        ConfigureMaxShutter(
        ConfigureGain(
        ConfigureAdcMode(
        ConfigureAecAgc(
        ConfigureReadMode(
        ConfigurePixelMode(
        ConfigureShutter(
        ConfigureChipControl(
        ConfigureBlanking(
        ConfigureDefaults([sensor |-> s, bus |-> b0], pv),
        p), p), p), t, p), t, p), t, p), t, p), p), p),
        0)

\* the value the table gives each of its registers
TableValues ==
    [r \in RegAddrs \ {MT9V032_CHIP_VERSION} |-> reg_default[LastEntry[r]][2]]

\* outcomes of the verification reads on a bus whose writes all succeed:
\* every read fails, every read returns 0, every read returns 0xFFFF, every
\* read returns the table's value
VerifyPlans ==
    { Plan({}, RegAddrs, NoOverride),
      Plan({}, {}, [r \in RegAddrs |-> 0]),
      Plan({}, {}, [r \in RegAddrs |-> 65535]),
      Plan({}, {}, TableValues) }

\* the verification reads of the log l of a power-on whose configuration
\* starts at position k
VerifyReads(l, k) == SubSeq(l, k + NumDefaults + 4, k + 2 * NumDefaults + 3)

\* some verification read of the log l returned a value that is not the
\* table's
Mismatch(l, k) ==
    \E i \in 1..NumDefaults :
       /\ VerifyReads(l, k)[i].ev = "read"
       /\ VerifyReads(l, k)[i].reg = reg_default[i][1]
       /\ VerifyReads(l, k)[i].ok
       /\ VerifyReads(l, k)[i].val # reg_default[i][2]

\* C30: verification mismatches do not alter control flow: two runs of
\* mt9v032_configure from the same state that differ only in the values
\* returned by the verification-pass reads (any values, read errors
\* included) issue the same sequence of register writes with the same
\* values, end with the same mirrored fields, and return the same result.
\* First conjunct: of mt9v032_configure in the reachable states of the caller
\* that sets no control, each outcome of the verification reads against the
\* run on the undisturbed bus.  Second conjunct: every power-on the model
\* takes past the detection issues the whole sequence and returns 0,
\* whatever its verification reads returned.
C30_VerificationIsDiagnostic ==
    /\ [] ( Attacher
            => LET base == mt9v032_configure(sensor, Tunables, Bus(regs), GoodPlan)
               IN /\ ConfigureWith(sensor, Tunables, Bus(regs), GoodPlan, GoodPlan) = base
                  /\ \A pv \in VerifyPlans :
                        LET run == ConfigureWith(sensor, Tunables, Bus(regs), pv, GoodPlan)
                        IN /\ WritesOf(run.bus.log) = WritesOf(base.bus.log)
                           /\ run.sensor = base.sensor
                           /\ run.bus.regs = base.bus.regs
                           /\ run.ret = base.ret
                           /\ run.bus.log # base.bus.log )
    /\ [][ ( /\ call'.op = "s_power"
             /\ call'.value = V4L2_POWER_ON
             /\ PowerGranted(log')
             /\ ~DetectionFailed(log') )
           => /\ call'.ret = 0
              /\ Len(log') = (IF sensor.detected = 0 THEN 4 ELSE 3) + Len(ConfigureSteps)
              /\ log'[Len(log')].ev = "write"
         ]_vars

\* a power-on of the detected sensor whose verification read of the chip
\* control register returned a value other than the table's (the table
\* write had failed): the call went on through every dependent setting
\* and returned 0
C30_Witness ==
    /\ call = [op |-> "s_power", id |-> "", value |-> V4L2_POWER_ON, ret |-> 0]
    /\ ~VersionRead(log)
    /\ Len(log) = 3 + Len(ConfigureSteps)
    /\ Mismatch(log, 3)
    /\ \E i \in 1..NumDefaults :
          /\ VerifyReads(log, 3)[i] = Event("read", MT9V032_CHIP_CONTROL,
                                            VerifyReads(log, 3)[i].val, TRUE)
          /\ VerifyReads(log, 3)[i].val # TableValues[MT9V032_CHIP_CONTROL]
    /\ log[Len(log) - 1].ev = "write" /\ log[Len(log) - 1].reg = MT9V032_MAX_SHUTTER_WIDTH

\* every combination of the six module parameters
TunableSets ==
    [auto_exp : {0, 1}, auto_gain : {0, 1}, hdr : {0, 1},
     low_light : {0, 1}, hflip : {0, 1}, vflip : {0, 1}]

\* what the last read of a register in the log l returned
LastRead(l, reg) ==
    LET X == {i \in 1..Len(l) : l[i].ev = "read" /\ l[i].reg = reg}
    IN l[CHOOSE i \in X : \A j \in X : j <= i].val

\* x with the bits of weight m and n cleared
ClearBits(x, m, n) == ClearBit(ClearBit(x, m), n)

\* the result c of a configuration for the parameters t: the bits chosen by
\* the parameters, the other bits as read back, the snapshot bit, and each
\* mirror equal to the value written to its register
ConfiguredFrom(c, t) ==
    /\ TestBit(c.sensor.pixel_mode, MT9V032_HIGH_DYNAMIC_RANGE) <=> t.hdr # 0
    /\ TestBit(c.sensor.read_mode, MT9V032_VERTICAL_FLIP) <=> t.vflip # 0
    /\ TestBit(c.sensor.read_mode, MT9V032_HORIZONTAL_FLIP) <=> t.hflip # 0
    /\ TestBit(c.sensor.aec_agc_enable, MT9V032_AUTO_EXPOSURE) <=> t.auto_exp # 0
    /\ TestBit(c.sensor.aec_agc_enable, MT9V032_AUTO_GAIN) <=> t.auto_gain # 0
    /\ c.sensor.adc_mode = (IF t.low_light # 0 THEN 3 ELSE 2)
    /\ ClearBit(c.sensor.pixel_mode, MT9V032_HIGH_DYNAMIC_RANGE)
          = ClearBit(LastRead(c.bus.log, MT9V032_PIXEL_OPERATION_MODE),
                     MT9V032_HIGH_DYNAMIC_RANGE)
    /\ ClearBits(c.sensor.read_mode, MT9V032_VERTICAL_FLIP, MT9V032_HORIZONTAL_FLIP)
          = ClearBits(LastRead(c.bus.log, MT9V032_READ_MODE),
                      MT9V032_VERTICAL_FLIP, MT9V032_HORIZONTAL_FLIP)
    /\ ClearBits(c.sensor.aec_agc_enable, MT9V032_AUTO_EXPOSURE, MT9V032_AUTO_GAIN)
          = ClearBits(LastRead(c.bus.log, MT9V032_AEC_AGC_ENABLE),
                      MT9V032_AUTO_EXPOSURE, MT9V032_AUTO_GAIN)
    /\ TestBit(c.sensor.chip_control, MT9V032_SNAPSHOT_MODE)
    /\ LastWrite(c.bus.log, MT9V032_CHIP_CONTROL) = c.sensor.chip_control
    /\ LastWrite(c.bus.log, MT9V032_READ_MODE) = c.sensor.read_mode
    /\ LastWrite(c.bus.log, MT9V032_AEC_AGC_ENABLE) = c.sensor.aec_agc_enable
    /\ LastWrite(c.bus.log, MT9V032_PIXEL_OPERATION_MODE) = c.sensor.pixel_mode
    /\ LastWrite(c.bus.log, MT9V032_ADC_MODE_CONTROL) = c.sensor.adc_mode

\* a bus on which the read of the pixel-operation-mode register fails
PixelModeReadFails == Plan({}, {MT9V032_PIXEL_OPERATION_MODE}, NoOverride)

\* C31: after mt9v032_configure completes, for every combination of the
\* module parameters hdr, vflip, hflip, auto_exp, auto_gain and low_light:
\* pixel_mode has bit 0x40 set iff hdr # 0, read_mode has bit 0x10 set iff
\* vflip # 0 and bit 0x20 set iff hflip # 0, aec_agc_enable has bit 0x01 set
\* iff auto_exp # 0 and bit 0x02 set iff auto_gain # 0, adc_mode is 3 if
\* low_light # 0 and 2 otherwise, all other bits of those mirrors equal the
\* value read back from the register, chip_control has the snapshot bit
\* 0x10 set, and each mirror value is the value written to its register.
C31_ConfiguredFromTunables ==
    \A t \in TunableSets :
    \A p \in {GoodPlan, PixelModeReadFails} :
       ConfiguredFrom(mt9v032_configure(sensor, t, Bus(regs), p), t)

\* values the window-height read may return: the table's, the ends of the
\* 16-bit range, and the values around which 4 * (H + 86) and H + 86 pass
\* 0xFFFF
WindowHeights == {0, 1, 480, 16297, 16298, 32768, 65449, 65450, 65535}

\* a bus whose reads of the window-height register return H
HeightRead(H) == Plan({}, {}, MT9V032_WINDOW_HEIGHT :> H)

\* C32: for every 16-bit value H returned by the window-height read in
\* mt9v032_configure, the shutter mirror becomes H + 88 - 2, that same value
\* is what the total-shutter-width register receives, and the
\* maximum-shutter-width register receives exactly 4 times the shutter value,
\* with no truncation to 16 bits changing either written value (for the
\* table default H = 480 this is 566 and 2264).
C32_ShutterFromWindowHeight ==
    \A H \in WindowHeights :
       LET c == mt9v032_configure(sensor, Tunables, Bus(regs), HeightRead(H))
       IN /\ c.sensor.shutter = H + 88 - 2
          /\ LastWrite(c.bus.log, MT9V032_TOTAL_SHUTTER_WIDTH) = c.sensor.shutter
          /\ c.bus.regs[MT9V032_TOTAL_SHUTTER_WIDTH] = c.sensor.shutter
          /\ LastWrite(c.bus.log, MT9V032_MAX_SHUTTER_WIDTH) = 4 * c.sensor.shutter
          /\ c.bus.regs[MT9V032_MAX_SHUTTER_WIDTH] = 4 * c.sensor.shutter
          /\ H = 480 => ( /\ c.sensor.shutter = 566
                          /\ c.bus.regs[MT9V032_MAX_SHUTTER_WIDTH] = 2264 )

\* the register, the enable bit and the module parameter of a manual control
ManualReg == [id \in ManualIds |->
                 IF id = "EXPOSURE" THEN MT9V032_TOTAL_SHUTTER_WIDTH ELSE MT9V032_ANALOG_GAIN]
ManualBit == [id \in ManualIds |-> EnableBit[AutoOf(id)]]
ManualParam == [id \in ManualIds |-> EnableParam[AutoOf(id)]]

\* accepted values of the manual controls: the ends of each range, and for
\* the gain the codes around 32
ManualValues ==
    [id \in ManualIds |-> IF id = "EXPOSURE" THEN {2, 3, 300, 480}
                          ELSE {16, 31, 32, 33, 63, 64}]

\* the register and the value of each event of the log l
Transfers(l) == [i \in 1..Len(l) |-> <<l[i].ev, l[i].reg, l[i].val>>]

\* the transfers of an accepted manual set that writes val, made with the
\* sensor at s and the parameters at t: the AEC/AGC-enable write first when
\* the control's automatic mode is on
ManualTransfers(s, t, id, val) ==
    (IF t[ManualParam[id]] # 0
     THEN << <<"write", MT9V032_AEC_AGC_ENABLE, ClearBit(s.aec_agc_enable, ManualBit[id])>> >>
     ELSE <<>>)
    \o << <<"write", ManualReg[id], val>> >>

\* the value an accepted set of v writes: v, quantized for the gain
WrittenFor(id, v) == IF id = "GAIN" THEN QuantizedGain(v) ELSE v

\* C33 (amended: the value written to the analog-gain register is v with its
\* lowest bit cleared when v >= 32): an accepted ioctl_s_ctrl(EXPOSURE, v)
\* issues, when the automatic exposure is on (auto_exp # 0), exactly two
\* register writes in this order: the AEC/AGC-enable register with bit 0x01
\* cleared and bit 0x02 unchanged, then the total-shutter-width register with
\* v; when it is off it issues exactly one write, the total-shutter-width
\* register with v.  The same holds for GAIN with bit 0x02, auto_gain and
\* the analog-gain register, which receives the quantized v.  First
\* conjunct: of the handler in every reachable state, under every bus
\* behaviour.  Second conjunct: of every accepted manual set the model
\* takes.
C33_ManualSetWrites ==
    /\ [] ( \A id \in ManualIds :
            \A p \in CtrlPlans[id] :
            \A v \in ManualValues[id] :
               Transfers(ioctl_s_ctrl(sensor, Tunables, Bus(regs), p, id, v).bus.log)
                  = ManualTransfers(sensor, Tunables, id, WrittenFor(id, v)) )
    /\ [][ \A id \in ManualIds :
              ( /\ call'.op = "s_ctrl"
                /\ call'.id = id
                /\ call'.value \in Minimum[id]..Maximum[id] )
              => Transfers(log')
                    = ManualTransfers(sensor, Tunables, id, WrittenFor(id, call'.value))
         ]_vars

\* C33 as stated: an accepted ioctl_s_ctrl(EXPOSURE, v) issues, when
\* automatic exposure is enabled, exactly two register writes in this order:
\* the AEC/AGC-enable register with bit 0x01 cleared (bit 0x02 unchanged),
\* then the total-shutter-width register with v; when automatic exposure is
\* already disabled it issues exactly one write, the total-shutter-width
\* register with v.  The same holds for GAIN with bit 0x02 and the
\* analog-gain register.
C33_ManualSetWritesValue ==
    /\ [] ( \A id \in ManualIds :
            \A p \in CtrlPlans[id] :
            \A v \in ManualValues[id] :
               Transfers(ioctl_s_ctrl(sensor, Tunables, Bus(regs), p, id, v).bus.log)
                  = ManualTransfers(sensor, Tunables, id, v) )
    /\ [][ \A id \in ManualIds :
              ( /\ call'.op = "s_ctrl"
                /\ call'.id = id
                /\ call'.value \in Minimum[id]..Maximum[id] )
              => Transfers(log') = ManualTransfers(sensor, Tunables, id, call'.value)
         ]_vars

\* a gain of 33 was set on the powered sensor while both automatic modes
\* were on: the AEC/AGC-enable register was written first, with the gain bit
\* cleared and the exposure bit kept, then the analog-gain register, with 32
C33_Witness ==
    /\ call = [op |-> "s_ctrl", id |-> "GAIN", value |-> 33, ret |-> 0]
    /\ sensor.detected = 1
    /\ Transfers(log) = << <<"write", MT9V032_AEC_AGC_ENABLE, MT9V032_AUTO_EXPOSURE>>,
                           <<"write", MT9V032_ANALOG_GAIN, 32>> >>
    /\ auto_gain = 0
    /\ auto_exp = 1

\* C34: in every reachable state, the states right after a successful
\* s_power(ON) included, the value ioctl_g_ctrl returns for EXPOSURE lies
\* within the [minimum, maximum] that ioctl_queryctrl reports for EXPOSURE
\* (2..480), and the value it returns for GAIN lies within 16..64.
C34_ControlsWithinRange ==
    /\ Minimum["EXPOSURE"] = 2 /\ Maximum["EXPOSURE"] = 480
    /\ Minimum["GAIN"] = 16 /\ Maximum["GAIN"] = 64
    /\ \A id \in ManualIds :
          /\ ioctl_g_ctrl(sensor, id).ret = 0
          /\ ioctl_g_ctrl(sensor, id).value \in Minimum[id]..Maximum[id]

\* C35: in every state from a successful mt9v032_probe onward, the states
\* before any try_format or set_format call included, the descriptor
\* returned by ioctl_g_fmt_cap has width 752, height 480, a pixel encoding
\* from the selected format list, line stride = width * 2 and byte size =
\* line stride * height.
C35_CurrentFormatComplete ==
    LET f == ioctl_g_fmt_cap(sensor).f
    IN /\ ioctl_g_fmt_cap(sensor).ret = 0
       /\ f.width = 752
       /\ f.height = 480
       /\ f.pixelformat \in SelectedEncodings
       /\ f.bytesperline = f.width * 2
       /\ f.sizeimage = f.bytesperline * f.height

\* the positions of the register reads and writes of the log l
Accesses(l) == {i \in 1..Len(l) : l[i].ev \in {"read", "write"}}

\* C36: the driver issues a register bus read or write only while the
\* device is powered ON with the pixel clock enabled: no sequence of s_power
\* and set-control calls makes it access a register while the last
\* successful power transition targeted STANDBY or OFF, or before the first
\* successful s_power(ON) (ioctl_s_ctrl called while off and the
\* stop-capture write of an OFF or STANDBY request made while already off
\* included).  Of every call: at each of its transfers the power state and
\* the clock, as the call found them or has set them since, are ON and
\* 27 MHz.
C36_AccessOnlyWhenPowered ==
    [][ \A i \in Accesses(log') :
           /\ LastPower(SubSeq(log', 1, i - 1), power) = V4L2_POWER_ON
           /\ LastXclk(SubSeq(log', 1, i - 1), xclk) = XCLK_HZ
      ]_vars

\* C37: in every reachable state from module load onward, the auto-mode bits
\* of the aec_agc_enable mirror agree with the module parameters that the
\* manual-set path tests: bit 0x01 is set iff auto_exp # 0 and bit 0x02 is
\* set iff auto_gain # 0, so that ioctl_g_ctrl(EXPOSURE_AUTO) and
\* ioctl_g_ctrl(AUTOGAIN) always report the mode that the next configure
\* would apply; likewise read_mode bits 0x10/0x20 agree with vflip/hflip.
C37_MirrorsAgreeWithParameters ==
    /\ TestBit(sensor.aec_agc_enable, MT9V032_AUTO_EXPOSURE) <=> auto_exp # 0
    /\ TestBit(sensor.aec_agc_enable, MT9V032_AUTO_GAIN) <=> auto_gain # 0
    /\ TestBit(sensor.read_mode, MT9V032_VERTICAL_FLIP) <=> vflip # 0
    /\ TestBit(sensor.read_mode, MT9V032_HORIZONTAL_FLIP) <=> hflip # 0
    /\ ioctl_g_ctrl(sensor, "EXPOSURE_AUTO").value = FlagOn(auto_exp)
    /\ ioctl_g_ctrl(sensor, "AUTOGAIN").value = FlagOn(auto_gain)
    /\ ioctl_g_ctrl(sensor, "VFLIP").value = FlagOn(vflip)
    /\ ioctl_g_ctrl(sensor, "HFLIP").value = FlagOn(hflip)

\* the color variant was selected at module load
ColorSelected == sensor_type # "mono"

\* C38: the color/mono selection made at module initialization is preserved
\* by configuration: after any number of mt9v032_configure runs on a bus
\* where reads return the last value written, the color-sensor bit (0x04) of
\* the pixel_mode mirror and of the value written to the
\* pixel-operation-mode register is set iff the color variant was selected
\* (sensor_type is not "mono"), and the selected format list never changes
\* after mt9v032_init.  First conjunct: before the first configuration and
\* after every power-on whose transfers all succeeded.  Second conjunct: no
\* call changes the format list.
C38_ColorSelectionPreserved ==
    /\ [] ( /\ sensor.detected = 0
               => (TestBit(sensor.pixel_mode, MT9V032_COLOR_SENSOR) <=> ColorSelected)
            /\ GoodPowerOn
               => /\ TestBit(sensor.pixel_mode, MT9V032_COLOR_SENSOR) <=> ColorSelected
                  /\ TestBit(LastWrite(log, MT9V032_PIXEL_OPERATION_MODE),
                             MT9V032_COLOR_SENSOR) <=> ColorSelected
                  /\ TestBit(regs[MT9V032_PIXEL_OPERATION_MODE],
                             MT9V032_COLOR_SENSOR) <=> ColorSelected )
    /\ [][ /\ mt9v032_formats(sensor_type') = mt9v032_formats(sensor_type)
           /\ mt9v032_num_formats(sensor_type') = mt9v032_num_formats(sensor_type)
         ]_vars

====
